---------------------------- MODULE Spec2Model ----------------------------
(***************************************************************************)
(* A model of the ingestion engine of rag-gateway:                         *)
(*   - the crawl lock file (ingestion/cli.py, scheduled_crawl.py),         *)
(*   - the embedding batcher batched_embed_many (ingestion/service.py),    *)
(*   - the ingestion orchestrator ingest_documents (ingestion/service.py)  *)
(*     with document_to_chunks, chunk_text and normalize_whitespace.       *)
(*   - the HTTP crawler crawl_http_docs, the crawl run of cli.py and       *)
(*     scheduled_crawl.py, and the scheduler's due test,                   *)
(*   - the query path: retrieve_evidence with its searches, evidence       *)
(*     assembly and reranking (core/retrieval.py).                         *)
(* Each component has its own variables, initial condition, next-state     *)
(* relation and specification; a component's specification keeps the       *)
(* other components' variables at their idle values.                       *)
(***************************************************************************)
EXTENDS Integers, Sequences, FiniteSets, TLC

VARIABLES
    \* ---- lock file ----
    lockFile,   \* the lock path: NoFile, or the inode it names [ino, pid]
    lpc,        \* each process's position in _acquire_lock / _release_lock
    lseen,      \* each process's existing_pid, as read from the lock file
    lkind       \* which _acquire_lock a process runs: "cli" or "scheduled"

lockVars == <<lockFile, lpc, lseen, lkind>>

VARIABLES
    \* ---- embedding batcher: one call of batched_embed_many ----
    eTexts,          \* texts, the list to embed
    eCfg,            \* batch_size, max_concurrent, max_retries; the service's behaviour
    frames,          \* the activations of process_batch_adaptive, by <<batch_idx, node>>
    sem,             \* free permits of asyncio.Semaphore(max_concurrent)
    failed_batches,  \* the failure records appended so far
    final_vectors,   \* the list batched_embed_many returns
    eReturned        \* batched_embed_many has returned

embedVars == <<eTexts, eCfg, frames, sem, failed_batches, final_vectors, eReturned>>

VARIABLES
    \* ---- ingestion orchestrator: successive calls of ingest_documents ----
    iCfg,     \* the deployment's chunking, batching and incremental settings
    qdrant,   \* the vector store: chunk id -> [vector, payload]
    bm25,     \* the keyword index: chunk id -> [text]
    last,     \* the last call: its arguments, how it ended, what it requested
    prev,     \* the call before the last
    runs      \* the number of calls so far

ingestVars == <<iCfg, qdrant, bm25, last, prev, runs>>

VARIABLES
    \* ---- chunker: one call of chunk_text ----
    ctArgs,   \* text, max_chars, overlap_chars
    ctOut     \* how the call ended, and the chunks it returned

chunkVars == <<ctArgs, ctOut>>

VARIABLES
    \* ---- HTTP crawler: one call of crawl_http_docs ----
    crCfg,            \* the crawl spec and the configured defaults
    crEnv,            \* the site: each page's links, the thin pages, the failing URLs
    queue,            \* the deque of (url, depth)
    visited,          \* the set of URLs taken into a batch so far
    fetched_content,  \* the URLs stored, in the order of their first storing
    fetches,          \* every (url, depth) handed to crawl_urls_parallel, in order
    documents,        \* the documents returned
    crpc              \* "loop" in the while loop, "done" after the return

crawlVars == <<crCfg, crEnv, queue, visited, fetched_content, fetches, documents, crpc>>

VARIABLES
    \* ---- retrieval: one call of retrieve_evidence ----
    rtArgs,       \* the two backends' ranked ids and the call's parameters
    rtpc,         \* "start", "rerank" (awaiting the reranking service), "done"
    fused,        \* the dict of rrf_fuse: (id, score) in insertion order
    cand_chunks,  \* the candidates, in the order of their assembly
    rerank_json,  \* the reranking service's answer
    evidence      \* the evidence returned

retrievalVars == <<rtArgs, rtpc, fused, cand_chunks, rerank_json, evidence>>

VARIABLES
    \* ---- run: one process running run_crawl or run_scheduled_crawl ----
    rCfg,                 \* program, scheduler settings, sources, lock file found
    rpc,                  \* the process's position
    rLockFile,            \* the lock file: whose pid it holds
    _SHUTDOWN_REQUESTED,  \* cli.py's flag of the first signal
    rSignals,             \* the signals delivered so far
    rIdx,                 \* the source the loop is at (from 1)
    rBatch,               \* the write batch the source's ingestion is at
    totals,               \* the aggregate counts
    errors,               \* the recorded per-source errors
    per_source,           \* the per-source entries
    rStarted,             \* the sources whose crawl was started, in order
    rWrites,              \* the (source, batch) store writes performed
    rProbed,              \* TRUE once the embedding service was called
    rAcquired,            \* TRUE once _acquire_lock returned
    rLastRun,             \* the persisted last-run timestamp
    rOutcome              \* how the process ends and what it reports

runVars == <<rCfg, rpc, rLockFile, _SHUTDOWN_REQUESTED, rSignals, rIdx, rBatch,
             totals, errors, per_source, rStarted, rWrites, rProbed, rAcquired,
             rLastRun, rOutcome>>

VARIABLES
    \* ---- rerank batching: the reranking step of one retrieve_evidence ----
    rkArgs,   \* the number of candidates, the score of each text, the answers' shape
    rkpc,     \* "start", "done"
    rkOut     \* how the step ended and the ranking it gave

rerankVars == <<rkArgs, rkpc, rkOut>>

VARIABLES
    \* ---- evidence assembly: the searches and the assembly of one call ----
    evArgs,     \* the query's matches in each backend and the filters
    evpc,       \* "start", "searched", "assembled", "done"
    bm25_hits,  \* the keyword hits: chunk id and stored fields
    vec_hits,   \* the vector hits: chunk id and payload
    assembled,  \* cand_chunks as assembled
    evReturned  \* the evidence the call returns

assemblyVars == <<evArgs, evpc, bm25_hits, vec_hits, assembled, evReturned>>

VARIABLES
    \* ---- scheduler: invocations of run_scheduled_crawl on one deployment ----
    sCfg,      \* interval_minutes
    spc,       \* each invocation's position
    sLock,     \* the lock file: 0, or the invocation that created it
    sLastRun,  \* last_run.json: <<>> or <<timestamp>>
    sClock,    \* _now(), in seconds
    sRuns      \* the ingestion runs carried out: who, when, last_run.json then

schedVars == <<sCfg, spc, sLock, sLastRun, sClock, sRuns>>

vars == <<lockVars, embedVars, ingestVars, chunkVars, crawlVars, retrievalVars,
         runVars, rerankVars, assemblyVars, schedVars>>

\* What a component's steps leave alone: the other components' variables.
notLockVars == <<embedVars, ingestVars, chunkVars, crawlVars, retrievalVars,
    runVars, rerankVars, assemblyVars, schedVars>>
notEmbedVars == <<lockVars, ingestVars, chunkVars, crawlVars, retrievalVars,
    runVars, rerankVars, assemblyVars, schedVars>>
notIngestVars == <<lockVars, embedVars, chunkVars, crawlVars, retrievalVars,
    runVars, rerankVars, assemblyVars, schedVars>>
notChunkVars == <<lockVars, embedVars, ingestVars, crawlVars, retrievalVars,
    runVars, rerankVars, assemblyVars, schedVars>>
notCrawlVars == <<lockVars, embedVars, ingestVars, chunkVars, retrievalVars,
    runVars, rerankVars, assemblyVars, schedVars>>
notRunVars == <<lockVars, embedVars, ingestVars, chunkVars, crawlVars, retrievalVars,
    rerankVars, assemblyVars, schedVars>>
notRerankVars == <<lockVars, embedVars, ingestVars, chunkVars, crawlVars,
    retrievalVars, runVars, assemblyVars, schedVars>>
notAssemblyVars == <<lockVars, embedVars, ingestVars, chunkVars, crawlVars,
    retrievalVars, runVars, rerankVars, schedVars>>
notSchedVars == <<lockVars, embedVars, ingestVars, chunkVars, crawlVars,
    retrievalVars, runVars, rerankVars, assemblyVars>>
notRetrievalVars == <<lockVars, embedVars, ingestVars, chunkVars, crawlVars,
    runVars, rerankVars, assemblyVars, schedVars>>

(***************************************************************************)
(*                              LOCK FILE                                  *)
(***************************************************************************)

\* Number of processes that contend for the lock file.
NumProcs == 3

Procs == 1..NumProcs

NoFile == [ino |-> 0, pid |-> 0]

\* p.read_text().strip() of a file whose pid was not written yet is "".
EmptyPid == 0

\* A process that has not exited and was not killed (os.kill(pid, 0) succeeds).
\* A run that ended, normally or with RuntimeError, has left the process table.
_is_process_running(pid) ==
    /\ pid \in Procs
    /\ lpc[pid] \notin {"dead", "done", "failed"}

LockInit ==
    /\ lockFile = NoFile
    /\ lpc = [p \in Procs |-> "start"]
    /\ lseen = [p \in Procs |-> EmptyPid]
    /\ lkind \in [Procs -> {"cli", "scheduled"}]

\* No process touches the lock file.
LockIdle ==
    /\ lockFile = NoFile
    /\ lpc = [p \in Procs |-> "start"]
    /\ lseen = [p \in Procs |-> EmptyPid]
    /\ lkind = [p \in Procs |-> "cli"]

\* os.open(path, O_CREAT | O_EXCL | O_RDWR): creates the file empty, or
\* raises FileExistsError.  scheduled_crawl.py turns FileExistsError into
\* RuntimeError at once; cli.py goes on to inspect the existing file.
OpenExcl(p) ==
    /\ lpc[p] = "start"
    /\ IF lockFile = NoFile
       THEN /\ lockFile' = [ino |-> p, pid |-> EmptyPid]
            /\ lpc' = [lpc EXCEPT ![p] = "opened"]
       ELSE /\ lockFile' = lockFile
            /\ lpc' = [lpc EXCEPT ![p] =
                          IF lkind[p] = "cli" THEN "exists" ELSE "failed"]
    /\ UNCHANGED <<lseen, lkind, notLockVars>>

\* os.write(fd, str(os.getpid())): writes to the inode the process created,
\* which the path names only as long as nobody unlinked it.  The process
\* then returns fd: it holds the lock.
WritePid(p) ==
    /\ lpc[p] = "opened"
    /\ lockFile' = IF lockFile.ino = p THEN [lockFile EXCEPT !.pid = p]
                   ELSE lockFile
    /\ lpc' = [lpc EXCEPT ![p] = "held"]
    /\ UNCHANGED <<lseen, lkind, notLockVars>>

\* cli.py: existing_pid = p.read_text().strip(); a missing file raises,
\* and `except Exception` turns that into RuntimeError.
ReadExisting(p) ==
    /\ lpc[p] = "exists"
    /\ IF lockFile = NoFile
       THEN /\ lpc' = [lpc EXCEPT ![p] = "failed"]
            /\ lseen' = lseen
       ELSE /\ lpc' = [lpc EXCEPT ![p] = "read"]
            /\ lseen' = [lseen EXCEPT ![p] = lockFile.pid]
    /\ UNCHANGED <<lockFile, lkind, notLockVars>>

\* cli.py: if existing_pid and _is_process_running(int(existing_pid)): raise
\* else: unlink and acquire again.
CheckOwner(p) ==
    /\ lpc[p] = "read"
    /\ lpc' = [lpc EXCEPT ![p] =
                  IF lseen[p] # EmptyPid /\ _is_process_running(lseen[p])
                  THEN "failed" ELSE "reclaim"]
    /\ UNCHANGED <<lockFile, lseen, lkind, notLockVars>>

\* cli.py: os.unlink(p); return _acquire_lock(lock_file).  unlink removes
\* whatever file the path names now; a missing file raises.
UnlinkStale(p) ==
    /\ lpc[p] = "reclaim"
    /\ IF lockFile = NoFile
       THEN /\ lpc' = [lpc EXCEPT ![p] = "failed"]
            /\ lockFile' = lockFile
       ELSE /\ lpc' = [lpc EXCEPT ![p] = "start"]
            /\ lockFile' = NoFile
    /\ UNCHANGED <<lseen, lkind, notLockVars>>

\* _release_lock: os.close(fd); os.unlink(lock_file), FileNotFoundError
\* ignored.  The path is unlinked whoever created the file it names.
_release_lock(p) ==
    /\ lpc[p] = "held"
    /\ lockFile' = NoFile
    /\ lpc' = [lpc EXCEPT ![p] = "done"]
    /\ UNCHANGED <<lseen, lkind, notLockVars>>

\* The process is killed (SIGKILL, power loss): no finally block runs, the
\* lock file stays behind.
Kill(p) ==
    /\ lpc[p] \in {"opened", "held"}
    /\ lpc' = [lpc EXCEPT ![p] = "dead"]
    /\ UNCHANGED <<lockFile, lseen, lkind, notLockVars>>

LockNext ==
    \E p \in Procs :
        \/ OpenExcl(p)
        \/ WritePid(p)
        \/ ReadExisting(p)
        \/ CheckOwner(p)
        \/ UnlinkStale(p)
        \/ _release_lock(p)
        \/ Kill(p)

(***************************************************************************)
(*                   EMBEDDING BATCHER: batched_embed_many                 *)
(***************************************************************************)

\* Bounds on the inputs of one call.
MaxTexts == 4
MaxBatchSize == 3
MaxConcurrent == 2
MaxRetries == 2

\* min_batch_size, the parameter's default (no caller passes another).
min_batch_size == 1

\* retry_delay and backoff, the parameters' defaults (no caller passes others).
retry_delay == 1
backoff == 2

Max(a, b) == IF a >= b THEN a ELSE b
Min(a, b) == IF a <= b THEN a ELSE b

\* The embedding of one text.
Vec(t) == [emb |-> t]

\* tei_client.embed_many on success: one vector per text, in input order.
embed_many(ts) == [i \in 1..Len(ts) |-> Vec(ts[i])]

\* What process_batch_adaptive returns next to batch_idx: vectors, or None.
NoVectors == [ok |-> FALSE, vecs |-> <<>>]
Vectors(vs) == [ok |-> TRUE, vecs |-> vs]

\* total_batches = (len(texts) + batch_size - 1) // batch_size
total_batches == (Len(eTexts) + eCfg.batch_size - 1) \div eCfg.batch_size

BatchIdx == 0..(total_batches - 1)

\* batches: texts[i : i + batch_size] for i = batch_idx * batch_size.
BatchTexts(b) ==
    SubSeq(eTexts, b * eCfg.batch_size + 1,
           Min(b * eCfg.batch_size + eCfg.batch_size, Len(eTexts)))

\* Activations of process_batch_adaptive: the task of batch b is <<b, 1>>, the
\* recursive calls of activation <<b, k>> are <<b, 2k>> (left), <<b, 2k+1>> (right).
Root(b) == <<b, 1>>
LeftOf(f) == <<f[1], 2 * f[2]>>
RightOf(f) == <<f[1], 2 * f[2] + 1>>

\* A call process_batch_adaptive(batch_idx, batch_texts, current_batch_size),
\* waiting at `async with semaphore`.
NewFrame(ts, size) ==
    [batch_texts |-> ts, current_batch_size |-> size, attempt |-> 0,
     pc |-> "wait", result |-> NoVectors, calls |-> 0, waits |-> <<>>]

\* The embedding service's answers to one call.  "oversize": it rejects every
\* call of more than 2 texts as payload too large (413) and succeeds otherwise.
ServiceOutcomes(ts) ==
    IF eCfg.service = "oversize"
    THEN (IF Len(ts) > 2 THEN {"413"} ELSE {"ok"})
    ELSE {"ok", "timeout", "error", "413"}

EmbedInit ==
    /\ eTexts \in {[i \in 1..n |-> i] : n \in 0..MaxTexts}
    /\ eCfg \in [batch_size : 1..MaxBatchSize,
                 max_concurrent : 1..MaxConcurrent,
                 max_retries : 0..MaxRetries,
                 service : {"any", "oversize"}]
    /\ frames = [f \in {Root(b) : b \in BatchIdx} |->
                    NewFrame(BatchTexts(f[1]), eCfg.batch_size)]
    /\ sem = eCfg.max_concurrent
    /\ failed_batches = <<>>
    /\ final_vectors = <<>>
    /\ eReturned = FALSE

\* No call of batched_embed_many is under way.
EmbedIdle ==
    /\ eTexts = <<>>
    /\ eCfg = [batch_size |-> 1, max_concurrent |-> 1, max_retries |-> 0,
               service |-> "any"]
    /\ frames = <<>>
    /\ sem = 0
    /\ failed_batches = <<>>
    /\ final_vectors = <<>>
    /\ eReturned = FALSE

\* An activation that enters without a permit being free.
AcquireWithoutPermit(f) ==
    /\ f \in DOMAIN frames
    /\ frames[f].pc = "wait"
    /\ sem' = sem - 1
    /\ frames' = [frames EXCEPT ![f].pc = "call"]
    /\ UNCHANGED <<eTexts, eCfg, failed_batches, final_vectors, eReturned, notEmbedVars>>

\* async with semaphore: a waiting activation takes a free permit.
AcquireSemaphore(f) ==
    /\ f \in DOMAIN frames
    /\ frames[f].pc = "wait"
    /\ sem > 0
    /\ sem' = sem - 1
    /\ frames' = [frames EXCEPT ![f].pc = "call"]
    /\ UNCHANGED <<eTexts, eCfg, failed_batches, final_vectors, eReturned, notEmbedVars>>

\* vectors = await wait_for(embed_many(batch_texts)) succeeded: return
\* (batch_idx, vectors), leaving the semaphore.
EmbedOk(f) ==
    /\ f \in DOMAIN frames
    /\ frames[f].pc = "call"
    /\ "ok" \in ServiceOutcomes(frames[f].batch_texts)
    /\ frames' = [frames EXCEPT ![f].pc = "done", ![f].calls = @ + 1,
                                ![f].result = Vectors(embed_many(frames[f].batch_texts))]
    /\ sem' = sem + 1
    /\ UNCHANGED <<eTexts, eCfg, failed_batches, final_vectors, eReturned, notEmbedVars>>

\* half_size = max(current_batch_size // 2, min_batch_size)
half_size(fr) == Max(fr.current_batch_size \div 2, min_batch_size)

\* mid_point = len(batch_texts) // 2
mid_point(fr) == Len(fr.batch_texts) \div 2

\* `"413" in str(e) and current_batch_size > min_batch_size`: the activation
\* keeps its permit and awaits process_batch_adaptive on the left half.
SplitOn413(f) ==
    /\ f \in DOMAIN frames
    /\ frames[f].pc = "call"
    /\ "413" \in ServiceOutcomes(frames[f].batch_texts)
    /\ frames[f].current_batch_size > min_batch_size
    /\ frames' = [frames EXCEPT ![f].pc = "left", ![f].calls = @ + 1] @@
                 (LeftOf(f) :> NewFrame(SubSeq(frames[f].batch_texts, 1, mid_point(frames[f])),
                                        half_size(frames[f])))
    /\ UNCHANGED <<eTexts, eCfg, sem, failed_batches, final_vectors, eReturned, notEmbedVars>>

\* A failure record that carries the activation's number, not the batch's.
failure_record_of_activation(f) ==
    [batch_index |-> f[2],
     batch_size |-> Len(frames[f].batch_texts),
     sample_texts |-> SubSeq(frames[f].batch_texts, 1, Min(3, Len(frames[f].batch_texts)))]

\* failure_record of an activation whose retries are exhausted.
failure_record(f) ==
    [batch_index |-> f[1],
     batch_size |-> Len(frames[f].batch_texts),
     sample_texts |-> SubSeq(frames[f].batch_texts, 1, Min(3, Len(frames[f].batch_texts)))]

RECURSIVE Pow(_, _)
Pow(b, n) == IF n = 0 THEN 1 ELSE b * Pow(b, n - 1)

\* A delay that does not grow with the attempt.
delay_constant(attempt) == retry_delay

\* delay = retry_delay * (backoff ** attempt)
delay(attempt) == retry_delay * Pow(backoff, attempt)

\* The activation sleeps after its last attempt too.
SleepAfterEveryAttempt(fr) == Append(fr.waits, delay(fr.attempt))

\* if attempt < max_retries: await sleep(delay), the waits of the activation
\* in order.
SleepBeforeRetry(fr) ==
    IF fr.attempt < eCfg.max_retries THEN Append(fr.waits, delay(fr.attempt))
    ELSE fr.waits

\* The call timed out, failed, or was rejected with nothing left to split.
\* if attempt < max_retries: sleep, then the next attempt; otherwise the
\* record goes to failed_batches and the activation returns (batch_idx, None).
EmbedFailed(f, outcome) ==
    /\ f \in DOMAIN frames
    /\ frames[f].pc = "call"
    /\ outcome \in ServiceOutcomes(frames[f].batch_texts) \ {"ok"}
    /\ outcome = "413" => frames[f].current_batch_size <= min_batch_size
    /\ IF frames[f].attempt < eCfg.max_retries
       THEN /\ frames' = [frames EXCEPT ![f].attempt = @ + 1, ![f].calls = @ + 1,
                                       ![f].waits = SleepBeforeRetry(frames[f])]
            /\ UNCHANGED <<sem, failed_batches>>
       ELSE /\ frames' = [frames EXCEPT ![f].pc = "done", ![f].result = NoVectors,
                                       ![f].calls = @ + 1,
                                       ![f].waits = SleepBeforeRetry(frames[f])]
            /\ failed_batches' = Append(failed_batches, failure_record(f))
            /\ sem' = sem + 1
    /\ UNCHANGED <<eTexts, eCfg, final_vectors, eReturned, notEmbedVars>>

\* left_result is there: await process_batch_adaptive on the right half.
AwaitRight(f) ==
    /\ f \in DOMAIN frames
    /\ frames[f].pc = "left"
    /\ frames[LeftOf(f)].pc = "done"
    /\ frames' = [frames EXCEPT ![f].pc = "right"] @@
                 (RightOf(f) :> NewFrame(SubSeq(frames[f].batch_texts,
                                                mid_point(frames[f]) + 1,
                                                Len(frames[f].batch_texts)),
                                         half_size(frames[f])))
    /\ UNCHANGED <<eTexts, eCfg, sem, failed_batches, final_vectors, eReturned, notEmbedVars>>

\* The halves recombined right before left.
CombineHalvesSwapped(left, right) ==
    IF left.ok /\ right.ok THEN [ok |-> TRUE, vecs |-> right.vecs \o left.vecs]
    ELSE [ok |-> FALSE, vecs |-> <<>>]

\* combined_vectors = left_result[1] + right_result[1] when neither is None,
\* and None otherwise.
CombineHalves(left, right) ==
    IF left.ok /\ right.ok THEN Vectors(left.vecs \o right.vecs) ELSE NoVectors

\* right_result is there: return the combination, leaving the semaphore.
ReturnCombined(f) ==
    /\ f \in DOMAIN frames
    /\ frames[f].pc = "right"
    /\ frames[RightOf(f)].pc = "done"
    /\ frames' = [frames EXCEPT ![f].pc = "done",
                                ![f].result = CombineHalves(frames[LeftOf(f)].result,
                                                            frames[RightOf(f)].result)]
    /\ sem' = sem + 1
    /\ UNCHANGED <<eTexts, eCfg, failed_batches, final_vectors, eReturned, notEmbedVars>>

\* ordered_results[batch_idx], filled from the tasks' results.
ordered_results(b) == frames[Root(b)].result

\* final_vectors: the vectors of the batches that are not None, by batch index.
RECURSIVE FlattenFrom(_)
FlattenFrom(b) ==
    IF b >= total_batches THEN <<>>
    ELSE (IF ordered_results(b).ok THEN ordered_results(b).vecs ELSE <<>>)
         \o FlattenFrom(b + 1)

\* raw_results = await asyncio.gather(*tasks); order, flatten, return.
GatherAndReturn ==
    /\ ~eReturned
    /\ \A b \in BatchIdx : frames[Root(b)].pc = "done"
    /\ final_vectors' = FlattenFrom(0)
    /\ eReturned' = TRUE
    /\ UNCHANGED <<eTexts, eCfg, frames, sem, failed_batches, notEmbedVars>>

\* Every activation a call within the bounds can create: halving batch_size
\* down to min_batch_size gives nodes below 2 * batch_size.
FrameIds == (0..MaxTexts) \X (1..(2 * MaxBatchSize))

EmbedNext ==
    \/ \E f \in FrameIds :
          \/ AcquireSemaphore(f)
          \/ EmbedOk(f)
          \/ SplitOn413(f)
          \/ \E outcome \in {"timeout", "error", "413"} : EmbedFailed(f, outcome)
          \/ AwaitRight(f)
          \/ ReturnCombined(f)
    \/ GatherAndReturn

(***************************************************************************)
(*            TEXT: normalize_whitespace, chunk_text                       *)
(* A string is a sequence of one-character strings.                        *)
(***************************************************************************)

\* The characters str.strip() removes, among those of the modelled texts.
Whitespace == {" ", "\t", "\n", "\r"}

\* s[i:] and s[:j] with Python's clamping, on 1-based sequences.
SeqFrom(s, i) == SubSeq(s, i, Len(s))

\* The elements of s whose index is in keep, in order.
KeepIndices(s, keep) ==
    LET F[i \in 0..Len(s)] ==
            IF i = 0 THEN <<>>
            ELSE IF i \in keep THEN Append(F[i - 1], s[i]) ELSE F[i - 1]
    IN F[Len(s)]

\* str.strip()
Strip(s) ==
    LET solid == {i \in 1..Len(s) : s[i] \notin Whitespace}
    IN IF solid = {} THEN <<>>
       ELSE SubSeq(s, CHOOSE i \in solid : \A j \in solid : i <= j,
                      CHOOSE i \in solid : \A j \in solid : i >= j)

\* str.replace(old, new): the non-overlapping occurrences, left to right.
Replace(s, old, new) ==
    LET n == Len(s)
        m == Len(old)
        F[i \in 1..(n + 1)] ==
            IF i > n THEN <<>>
            ELSE IF i + m - 1 <= n /\ SubSeq(s, i, i + m - 1) = old
                 THEN new \o F[i + m]
                 ELSE <<s[i]>> \o F[i + 1]
    IN F[1]

\* str.split(sep): the pieces between the non-overlapping occurrences of sep.
\* F[i] is the list of pieces of s[i:], its first piece still open.
Split(s, sep) ==
    LET n == Len(s)
        m == Len(sep)
        F[i \in 1..(n + 1)] ==
            IF i > n THEN << <<>> >>
            ELSE IF i + m - 1 <= n /\ SubSeq(s, i, i + m - 1) = sep
                 THEN << <<>> >> \o F[i + m]
                 ELSE <<(<<s[i]>> \o Head(F[i + 1]))>> \o Tail(F[i + 1])
    IN F[1]

\* re.sub(r"\r\n?", "\n", s)
SubCarriageReturns(s) ==
    LET n == Len(s)
        F[i \in 1..(n + 1)] ==
            IF i > n THEN <<>>
            ELSE IF s[i] = "\r"
                 THEN <<"\n">> \o (IF i < n /\ s[i + 1] = "\n" THEN F[i + 2] ELSE F[i + 1])
                 ELSE <<s[i]>> \o F[i + 1]
    IN F[1]

\* re.sub(r"[ \t]+\n", "\n", s): a space or tab goes when only spaces and
\* tabs separate it from the next newline.
SubBlanksBeforeNewline(s) ==
    LET Blank(i) == s[i] \in {" ", "\t"}
        BeforeNewline(i) ==
            \E j \in (i + 1)..Len(s) :
                /\ s[j] = "\n"
                /\ \A k \in i..(j - 1) : Blank(k)
        Keep(i) == ~(Blank(i) /\ BeforeNewline(i))
    IN KeepIndices(s, {i \in 1..Len(s) : Keep(i)})

\* re.sub(r"\n{3,}", "\n\n", s): of a run of newlines the first two stay.
SubNewlineRuns(s) ==
    LET Keep(i) == ~(i >= 3 /\ s[i] = "\n" /\ s[i - 1] = "\n" /\ s[i - 2] = "\n")
    IN KeepIndices(s, {i \in 1..Len(s) : Keep(i)})

normalize_whitespace(s) ==
    IF s = <<>> THEN <<>>
    ELSE Strip(SubNewlineRuns(SubBlanksBeforeNewline(SubCarriageReturns(s))))

\* [x.strip() for x in pieces if x.strip()]
StrippedNonEmpty(pieces) ==
    LET F[i \in 0..Len(pieces)] ==
            IF i = 0 THEN <<>>
            ELSE IF Strip(pieces[i]) # <<>> THEN Append(F[i - 1], Strip(pieces[i]))
                 ELSE F[i - 1]
    IN F[Len(pieces)]

\* The validation without its check of overlap_chars against max_chars.
chunk_text_raises_lenient(max_chars, overlap_chars) ==
    \/ max_chars <= 0
    \/ overlap_chars < 0

\* chunk_text raises ValueError for these parameters, before it looks at the text.
chunk_text_raises(max_chars, overlap_chars) ==
    \/ max_chars <= 0
    \/ overlap_chars < 0
    \/ overlap_chars >= max_chars

\* A sentence loop that joins every sentence to the current chunk.
PackSentenceJoined(st, sent, max_chars) ==
    [st EXCEPT !.current_chunk =
        IF st.current_chunk # <<>> THEN Strip(st.current_chunk \o <<" ">> \o sent)
        ELSE sent]

\* The sentence loop: one sentence of an oversized paragraph.
\* st = [chunks, current_chunk].
PackSentence(st, sent, max_chars) ==
    IF Len(st.current_chunk) + Len(sent) + 1 <= max_chars
    THEN [st EXCEPT !.current_chunk =
              IF st.current_chunk # <<>> THEN Strip(st.current_chunk \o <<" ">> \o sent)
              ELSE sent]
    ELSE [chunks |-> IF st.current_chunk # <<>> THEN Append(st.chunks, st.current_chunk)
                     ELSE st.chunks,
          current_chunk |-> sent]

\* sentences = [s.strip() for s in para.replace('. ', '.|').split('|') if s.strip()]
Sentences(para) ==
    StrippedNonEmpty(Split(Replace(para, <<".", " ">>, <<".", "|">>), <<"|">>))

PackSentences(st, sentences, max_chars) ==
    LET F[i \in 0..Len(sentences)] ==
            IF i = 0 THEN st ELSE PackSentence(F[i - 1], sentences[i], max_chars)
    IN F[Len(sentences)]

\* The paragraph loop: one paragraph.
PackParagraph(st, para, max_chars) ==
    IF Len(st.current_chunk) + Len(para) + 2 <= max_chars
    THEN [st EXCEPT !.current_chunk =
              IF st.current_chunk # <<>>
              THEN Strip(st.current_chunk \o <<"\n", "\n">> \o para)
              ELSE para]
    ELSE LET flushed == IF st.current_chunk # <<>>
                        THEN Append(st.chunks, st.current_chunk) ELSE st.chunks
         IN IF Len(para) > max_chars
            THEN PackSentences([chunks |-> flushed, current_chunk |-> <<>>],
                               Sentences(para), max_chars)
            ELSE [chunks |-> flushed, current_chunk |-> para]

\* chunk_text for parameters it accepts.
chunk_text(text, max_chars, overlap_chars) ==
    LET PackParagraphs(paragraphs) ==
            LET F[i \in 0..Len(paragraphs)] ==
                    IF i = 0 THEN [chunks |-> <<>>, current_chunk |-> <<>>]
                    ELSE PackParagraph(F[i - 1], paragraphs[i], max_chars)
            IN F[Len(paragraphs)]
        \* if current_chunk: chunks.append(current_chunk)
        Flushed(end) ==
            IF end.current_chunk # <<>> THEN Append(end.chunks, end.current_chunk)
            ELSE end.chunks
        \* return chunks if chunks else [text[:max_chars]]
        OrFallback(chunks, t) ==
            IF chunks # <<>> THEN chunks ELSE <<SubSeq(t, 1, Min(max_chars, Len(t)))>>
        Chunked(t) ==
            IF t = <<>> THEN <<>>
            ELSE IF Len(t) <= max_chars THEN <<t>>
            ELSE OrFallback(
                     Flushed(PackParagraphs(StrippedNonEmpty(Split(t, <<"\n", "\n">>)))),
                     t)
    IN Chunked(normalize_whitespace(text))

(***************************************************************************)
(*        INGESTION: document_to_chunks, ingest_documents                  *)
(***************************************************************************)

\* Bounds on the inputs of the ingestion runs.
MaxDocs == 1
MaxWriteBatch == 2
MaxEmbedBatch == 2
MaxFaults == 1
MaxRuns == 2

\* for i in range(0, len(chunks), 256): the page of one get_payloads call.
LookupPageSize == 256

\* hashlib.sha256(s).hexdigest(), and its prefixes [:24] and [:32]: distinct
\* inputs give distinct digests.
sha256_hex(x) == <<"sha256", x>>

\* The sample documents: two locations, and a text with its revision, which
\* differs from it in the second paragraph only.
TextAbCd == <<"a", "b", "\n", "\n", "c", "d">>
TextAbCe == <<"a", "b", "\n", "\n", "c", "e">>
SampleTexts == {TextAbCd, TextAbCe}
SampleUrls == {"u1", "u2"}

\* IngestDocument with doc_id = None.
NoDocId == <<>>
\* The sample documents name vendor v1; one of them is also there as
\* relabelled to vendor v2, its text and location as they were.
Documents ==
    [doc_id : {NoDocId}, title : {"t"}, url_or_path : SampleUrls, text : SampleTexts,
     vendor : {"v1"}]
    \cup [doc_id : {NoDocId}, title : {"t"}, url_or_path : {"u1"}, text : {TextAbCd},
          vendor : {"v2"}]

DocumentLists == UNION {[1..n -> Documents] : n \in 0..MaxDocs}

\* The chunking parameters of the configurations: those chunk_text accepts
\* (two chunks per sample text, one chunk per sample text) and one for each
\* way it rejects them.
ChunkingParams ==
    {<<3, 1>>, <<6, 0>>, <<0, 0>>, <<3, 0 - 1>>, <<3, 3>>}

\* The concatenation of a sequence of sequences.
Concat(seqs) ==
    LET F[i \in 0..Len(seqs)] == IF i = 0 THEN <<>> ELSE F[i - 1] \o seqs[i]
    IN F[Len(seqs)]

\* doc_id = doc.doc_id or sha256_hex(f"{doc.url_or_path}|{doc.title}")[:24]
DocId(doc) ==
    IF doc.doc_id # NoDocId THEN doc.doc_id
    ELSE sha256_hex(<<doc.url_or_path, "|", doc.title>>)

\* A chunk id from the document and the position alone.
ChunkIdByPosition(doc_id, i, chash) == sha256_hex(<<doc_id, "|", i>>)

\* cid = sha256_hex(f"{doc_id}|{i}|{chash}")[:32]
ChunkId(doc_id, i, chash) == sha256_hex(<<doc_id, "|", i, "|", chash>>)

\* document_to_chunks, for parameters chunk_text accepts: the ChunkRecords.
document_to_chunks(doc, max_chars, overlap_chars) ==
    LET ChunkRecord(doc_id, i, norm) ==
            [chunk_id |-> ChunkId(doc_id, i, sha256_hex(norm)),
             chunk_hash |-> sha256_hex(norm),
             doc_id |-> doc_id,
             title |-> doc.title,
             url_or_path |-> doc.url_or_path,
             \* vendor = doc.vendor or default_vendor, the document naming one
             vendor |-> doc.vendor,
             text |-> norm]
        Records(doc_id, chunks) ==
            [n \in 1..Len(chunks) |->
                ChunkRecord(doc_id, n - 1, normalize_whitespace(chunks[n]))]
    IN Records(DocId(doc), chunk_text(doc.text, max_chars, overlap_chars))

\* document_to_chunks, tabulated once for the sample documents and the
\* parameters chunk_text accepts.
AcceptedChunking == {p \in ChunkingParams : ~chunk_text_raises(p[1], p[2])}

ChunkRecordsOf ==
    [d \in Documents, p \in AcceptedChunking |-> document_to_chunks(d, p[1], p[2])]

\* chunks: the ChunkRecords of all documents, in order.
AllChunks(docs, cfg) ==
    Concat([d \in 1..Len(docs) |->
               ChunkRecordsOf[docs[d], <<cfg.max_chars, cfg.overlap_chars>>]])

\* A run that does not look at dry_run.
IsDryRunIgnored(dry_run) == FALSE

\* `if dry_run:` after the chunks are there.
IsDryRun(dry_run) == dry_run

\* A lookup that never finds a chunk unchanged.
IsUnchangedNever(c, q, cfg) == FALSE

\* A lookup that takes a chunk for changed when its vendor changed.
IsUnchangedSameVendor(c, q, cfg) ==
    /\ cfg.skip_unchanged
    /\ c.chunk_id \in DOMAIN q
    /\ q[c.chunk_id].payload.chunk_hash = c.chunk_hash
    /\ q[c.chunk_id].payload.vendor = c.vendor

\* payload and payload.get("chunk_hash") == c.chunk_hash, for the payload
\* qdrant.get_payloads returns for c.chunk_id; skip_unchanged decides first.
IsUnchanged(c, q, cfg) ==
    /\ cfg.skip_unchanged
    /\ c.chunk_id \in DOMAIN q
    /\ q[c.chunk_id].payload.chunk_hash = c.chunk_hash

\* to_process: every chunk, or in incremental mode those not skipped.
ToProcess(chunks, q, cfg) ==
    IF cfg.incremental
    THEN KeepIndices(chunks, {i \in 1..Len(chunks) : ~IsUnchanged(chunks[i], q, cfg)})
    ELSE chunks

\* The number of slices range(0, n, size) yields.
NumSlices(n, size) == (n + size - 1) \div size

\* s[k * size : (k + 1) * size] for the k-th slice, k from 1.
Slice(s, k, size) == SubSeq(s, (k - 1) * size + 1, Min(k * size, Len(s)))

\* What batched_embed_many returns for texts when the embedding batches with
\* the indices in failed end as permanent failures: the vectors of the other
\* batches, in ascending batch index.
BatcherOutput(texts, batch_size, failed) ==
    Concat([b \in 1..NumSlices(Len(texts), batch_size) |->
               IF (b - 1) \in failed THEN <<>>
               ELSE embed_many(Slice(texts, b, batch_size))])

\* points: one PointStruct per pair of zip(batch, vectors).
Points(batch, vectors) ==
    [i \in 1..Min(Len(batch), Len(vectors)) |->
        [id |-> batch[i].chunk_id,
         vector |-> vectors[i],
         payload |-> [chunk_id |-> batch[i].chunk_id,
                      chunk_hash |-> batch[i].chunk_hash,
                      doc_id |-> batch[i].doc_id,
                      vendor |-> batch[i].vendor,
                      text |-> batch[i].text]]]

\* Keyword documents for every chunk of the batch, embedded or not.
TantivyDocsOfBatch(batch, vectors) ==
    [i \in 1..Len(batch) |-> [chunk_id |-> batch[i].chunk_id, text |-> batch[i].text]]

\* tantivy_docs: one document per pair of zip(batch, vectors).
TantivyDocs(batch, vectors) ==
    [i \in 1..Min(Len(batch), Len(vectors)) |->
        [chunk_id |-> batch[i].chunk_id, text |-> batch[i].text]]

\* An upsert that keeps nothing but the points it is given.
upsert_points_only(q, points) ==
    LET ids == {points[i].id : i \in 1..Len(points)}
        LastOf(id) == CHOOSE i \in 1..Len(points) :
                          /\ points[i].id = id
                          /\ \A j \in (i + 1)..Len(points) : points[j].id # id
    IN [id \in ids |-> [vector |-> points[LastOf(id)].vector,
                        payload |-> points[LastOf(id)].payload]]

\* qdrant.upsert_points: each point replaces what its id had.
upsert_points(q, points) ==
    LET ids == {points[i].id : i \in 1..Len(points)}
        \* the last point of an id wins
        LastOf(id) == CHOOSE i \in 1..Len(points) :
                          /\ points[i].id = id
                          /\ \A j \in (i + 1)..Len(points) : points[j].id # id
    IN [id \in ids |-> [vector |-> points[LastOf(id)].vector,
                        payload |-> points[LastOf(id)].payload]] @@ q

\* bm25.upsert_chunks: delete by chunk_id, add the document, commit.
upsert_chunks(b, docs) ==
    LET ids == {docs[i].chunk_id : i \in 1..Len(docs)}
        LastOf(id) == CHOOSE i \in 1..Len(docs) :
                          /\ docs[i].chunk_id = id
                          /\ \A j \in (i + 1)..Len(docs) : docs[j].chunk_id # id
    IN [id \in ids |-> [text |-> docs[LastOf(id)].text]] @@ b

\* An index writer that adds the document and deletes nothing.
AddWithoutDelete(records, cid) == Append(records, cid)

\* writer.delete_documents("chunk_id", cid); writer.add_document(doc), on
\* the list of the index's records (their chunk ids): every record of the
\* id goes, one is added.  An upsert of a point by its id does the same.
DeleteThenAdd(records, cid) ==
    SelectSeq(records, LAMBDA r : r # cid) \o <<cid>>

\* The ids of a list of points or of keyword documents, in order.
IdsOf(records, field) == [i \in 1..Len(records) |-> records[i][field]]

\* What the services do during one call: the embedding batches that fail
\* permanently, as <<write batch, embedding batch index>>, and the store
\* request that raises, if any: <<"lookup", 0>>, <<"qdrant", k>>, <<"bm25", k>>
\* for write batch k.
NoFault == <<"none", 0>>
Healthy == [failed_embed |-> {}, fault |-> NoFault]

\* A count of points that adds one for the batch itself.
AddPointsAndBatch(total_points, points) == total_points + Len(points) + 1

\* total_points += len(points) (and updated += len(points)).
AddPoints(total_points, points) == total_points + Len(points)

\* The write loop, from the state before it.
\* loop = [qdrant, bm25, writes, points, embed_calls, outcome, gap].
WriteBatches(to_process, cfg, env, q, b) ==
    LET \* qdrant.upsert_points(points); bm25.upsert_chunks(tantivy_docs);
        \* total_points += len(points)
        Written(embedded, k, points, tantivy_docs) ==
            IF env.fault = <<"qdrant", k>>
            THEN [embedded EXCEPT !.outcome = "qdrant_error"]
            ELSE IF env.fault = <<"bm25", k>>
            THEN [embedded EXCEPT
                     !.qdrant = upsert_points(@, points),
                     !.writes = Append(@, [store |-> "qdrant", ids |-> IdsOf(points, "id")]),
                     !.outcome = "bm25_error",
                     !.gap = {points[i].id : i \in 1..Len(points)}]
            ELSE [embedded EXCEPT
                     !.qdrant = upsert_points(@, points),
                     !.bm25 = upsert_chunks(@, tantivy_docs),
                     !.writes = @ \o <<[store |-> "qdrant", ids |-> IdsOf(points, "id")],
                                       [store |-> "bm25",
                                        ids |-> IdsOf(tantivy_docs, "chunk_id")]>>,
                     !.points = AddPoints(@, points)]
        \* for c, v in zip(batch, vectors)
        Zipped(embedded, k, batch, vectors) ==
            Written(embedded, k, Points(batch, vectors), TantivyDocs(batch, vectors))
        \* one iteration: batch k, unless an earlier one raised
        Iteration(before, k, batch) ==
            IF before.outcome # "returned" THEN before
            ELSE Zipped([before EXCEPT !.embed_calls = @ + 1], k, batch,
                        BatcherOutput([i \in 1..Len(batch) |-> batch[i].text],
                                      cfg.embed_batch_size,
                                      {e \in 0..Len(batch) : <<k, e>> \in env.failed_embed}))
        F[k \in 0..NumSlices(Len(to_process), cfg.batch_size)] ==
            IF k = 0
            THEN [qdrant |-> q, bm25 |-> b, writes |-> <<>>, points |-> 0,
                  embed_calls |-> 0, outcome |-> "returned", gap |-> {}]
            ELSE Iteration(F[k - 1], k, Slice(to_process, k, cfg.batch_size))
    IN F[NumSlices(Len(to_process), cfg.batch_size)]

\* What a call leaves behind when it touched no service.
NoEffects(outcome, result, q, b) ==
    [outcome |-> outcome, result |-> result, qdrant |-> q, bm25 |-> b,
     lookups |-> 0, embed_calls |-> 0, writes |-> <<>>, gap |-> {}]

NoResult == [documents |-> 0, chunks |-> 0, points |-> 0, skipped |-> 0, updated |-> 0]

\* ingest_documents(documents, ..., dry_run) on stores q and b, with the
\* services behaving as env says: how the call ends, the dictionary it
\* returns, the stores after it, and the requests it made.
RunIngest(docs, dry_run, env, cfg, q, b) ==
    LET Summary(chunks, points, skipped) ==
            [documents |-> Len(docs), chunks |-> Len(chunks), points |-> points,
             skipped |-> skipped, updated |-> points]
        \* after the write loop
        Looped(chunks, skipped, lookups, loop) ==
            [outcome |-> loop.outcome,
             result |-> IF loop.outcome = "returned"
                        THEN Summary(chunks, loop.points, skipped)
                        ELSE NoResult,
             qdrant |-> loop.qdrant, bm25 |-> loop.bm25,
             lookups |-> lookups, embed_calls |-> loop.embed_calls,
             writes |-> loop.writes, gap |-> loop.gap]
        \* if not to_process: return ..., else the write loop
        Selected(chunks, to_process, lookups) ==
            IF to_process = <<>>
            THEN [NoEffects("returned",
                            Summary(chunks, 0, Len(chunks) - Len(to_process)), q, b)
                     EXCEPT !.lookups = lookups]
            ELSE Looped(chunks, Len(chunks) - Len(to_process), lookups,
                        WriteBatches(to_process, cfg, env, q, b))
        \* if not chunks: return ...; if dry_run: return ...; the lookups
        Chunked(chunks) ==
            IF chunks = <<>>
            THEN NoEffects("returned", [NoResult EXCEPT !.documents = Len(docs)], q, b)
            ELSE IF IsDryRun(dry_run)
            THEN NoEffects("returned", Summary(chunks, 0, 0), q, b)
            ELSE IF cfg.incremental /\ env.fault = <<"lookup", 0>>
            THEN [NoEffects("lookup_error", NoResult, q, b) EXCEPT !.lookups = 1]
            ELSE Selected(chunks, ToProcess(chunks, q, cfg),
                          IF cfg.incremental
                          THEN NumSlices(Len(chunks), LookupPageSize) ELSE 0)
    IN IF docs # <<>> /\ chunk_text_raises(cfg.max_chars, cfg.overlap_chars)
       THEN NoEffects("ValueError", NoResult, q, b)
       ELSE Chunked(AllChunks(docs, cfg))

\* The behaviours of the services a call can meet, at most MaxFaults faults
\* among them: only requests the call makes can fail.
Environments(docs, dry_run, cfg, q) ==
    LET Bounded(embeds, faults) ==
            {env \in [failed_embed : SUBSET embeds, fault : faults] :
                Cardinality(env.failed_embed) + (IF env.fault = NoFault THEN 0 ELSE 1)
                    <= MaxFaults}
        Requests(chunks, to_process, nw) ==
            Bounded({<<k, e>> \in (1..nw) \X (0..(MaxWriteBatch - 1)) :
                        e < NumSlices(Len(Slice(to_process, k, cfg.batch_size)),
                                      cfg.embed_batch_size)},
                    {NoFault}
                    \cup (IF cfg.incremental /\ chunks # <<>>
                          THEN {<<"lookup", 0>>} ELSE {})
                    \cup ({"qdrant", "bm25"} \X (1..nw)))
        Selected(chunks, to_process) ==
            Requests(chunks, to_process, NumSlices(Len(to_process), cfg.batch_size))
        Chunked(chunks) == Selected(chunks, ToProcess(chunks, q, cfg))
    IN IF (docs # <<>> /\ chunk_text_raises(cfg.max_chars, cfg.overlap_chars)) \/ dry_run
       THEN {Healthy}
       ELSE Chunked(AllChunks(docs, cfg))

\* The record of a call.
CallRecord(docs, dry_run, env, r, q, b) ==
    [docs |-> docs, dry_run |-> dry_run, failed_embed |-> env.failed_embed,
     outcome |-> r.outcome, result |-> r.result,
     lookups |-> r.lookups, embed_calls |-> r.embed_calls, writes |-> r.writes,
     gap |-> r.gap, qdrant_before |-> q, bm25_before |-> b]

NoCall ==
    [docs |-> <<>>, dry_run |-> FALSE, failed_embed |-> {},
     outcome |-> "none", result |-> NoResult,
     lookups |-> 0, embed_calls |-> 0, writes |-> <<>>,
     gap |-> {}, qdrant_before |-> <<>>, bm25_before |-> <<>>]

EmptyStore == <<>>

\* The configurations of a deployment.
Configs ==
    {[max_chars |-> p[1], overlap_chars |-> p[2], batch_size |-> bs,
      embed_batch_size |-> ebs, incremental |-> m[1], skip_unchanged |-> m[2]] :
        p \in ChunkingParams, bs \in 1..MaxWriteBatch, ebs \in 1..MaxEmbedBatch,
        m \in {<<TRUE, TRUE>>, <<TRUE, FALSE>>, <<FALSE, TRUE>>}}

\* The stores a deployment starts a run with: empty, or as a completed
\* earlier ingestion of one sample document left them.
SeedConfig ==
    [max_chars |-> 3, overlap_chars |-> 1, batch_size |-> 1, embed_batch_size |-> 1,
     incremental |-> TRUE, skip_unchanged |-> TRUE]

InitialStores ==
    {[qdrant |-> EmptyStore, bm25 |-> EmptyStore]} \cup
    {LET r == RunIngest(<<d>>, FALSE, Healthy, SeedConfig, EmptyStore, EmptyStore)
     IN [qdrant |-> r.qdrant, bm25 |-> r.bm25] :
        d \in {x \in Documents : x.url_or_path = "u1" /\ x.vendor = "v1"}}

IngestInit ==
    /\ iCfg \in Configs
    /\ \E s \in InitialStores : qdrant = s.qdrant /\ bm25 = s.bm25
    /\ last = NoCall
    /\ prev = NoCall
    /\ runs = 0

\* No ingestion runs.
IngestIdle ==
    /\ iCfg = SeedConfig
    /\ qdrant = EmptyStore
    /\ bm25 = EmptyStore
    /\ last = NoCall
    /\ prev = NoCall
    /\ runs = 0

\* One call of ingest_documents, from its first line to its return or raise.
ingest_documents(docs, dry_run, env) ==
    /\ runs < MaxRuns
    /\ LET r == RunIngest(docs, dry_run, env, iCfg, qdrant, bm25)
       IN /\ qdrant' = r.qdrant
          /\ bm25' = r.bm25
          /\ last' = CallRecord(docs, dry_run, env, r, qdrant, bm25)
    /\ prev' = last
    /\ runs' = runs + 1
    /\ UNCHANGED <<iCfg, notIngestVars>>

IngestNext ==
    /\ runs < MaxRuns
    /\ \E docs \in DocumentLists, dry_run \in BOOLEAN :
          \E env \in Environments(docs, dry_run, iCfg, qdrant) :
              ingest_documents(docs, dry_run, env)

(***************************************************************************)
(*                     CHUNKER: one call of chunk_text                     *)
(***************************************************************************)

\* Bounds on the texts and parameters of the call.
MaxTokens == 5
MaxChars == 4

\* The pieces the sample texts are made of: a letter, a sentence end, a
\* paragraph break, and the characters the sentence split touches.
TextTokens == {<<"a">>, <<".", " ">>, <<"\n", "\n">>, <<"|">>, <<" ">>, <<"\n">>}

ChunkTexts == {Concat(ts) : ts \in UNION {[1..n -> TextTokens] : n \in 0..MaxTokens}}

\* max_chars and overlap_chars: accepted ones, and one chunk_text rejects.
ChunkCallParams == ((1..MaxChars) \X {0}) \cup {<<2, 1>>, <<0, 0>>}

Pending == [state |-> "pending", chunks |-> <<>>]

ChunkInit ==
    /\ ctArgs \in [text : ChunkTexts, max_chars : 0..MaxChars, overlap_chars : 0..1]
    /\ <<ctArgs.max_chars, ctArgs.overlap_chars>> \in ChunkCallParams
    /\ ctOut = Pending

\* No call of chunk_text.
ChunkIdle ==
    /\ ctArgs = [text |-> <<>>, max_chars |-> 1, overlap_chars |-> 0]
    /\ ctOut = Pending

\* chunk_text(text, max_chars, overlap_chars), from its first line to its
\* return or raise.
CallChunkText ==
    /\ ctOut.state = "pending"
    /\ ctOut' = IF chunk_text_raises(ctArgs.max_chars, ctArgs.overlap_chars)
                THEN [state |-> "ValueError", chunks |-> <<>>]
                ELSE [state |-> "returned",
                      chunks |-> chunk_text(ctArgs.text, ctArgs.max_chars,
                                            ctArgs.overlap_chars)]
    /\ UNCHANGED <<ctArgs, notChunkVars>>

ChunkNext == CallChunkText

(***************************************************************************)
(*                  HTTP CRAWLER: crawl_http_docs                          *)
(* A URL is [scheme, netloc, path], the path a list of segments.           *)
(***************************************************************************)

\* Bounds on the crawl's inputs.
MaxStartUrls == 2
MaxFailing == 1

Url(scheme, netloc, path) == [scheme |-> scheme, netloc |-> netloc, path |-> path]

\* The pages of the sample site.
PgA == Url("http", "d", <<"docs", "a">>)
PgB == Url("http", "d", <<"docs", "b">>)
PgD == Url("https", "d", <<"docs", "d">>)
PgE == Url("http", "d", <<"docs", "e">>)
PgT == Url("http", "d", <<"docs", "t">>)
PgL == Url("http", "d", <<"docs", "l">>)
\* URLs the filter is about: another host, an excluded path, another
\* scheme, no host, a path outside the prefix.
UrlOther == Url("http", "other", <<"docs", "x">>)
UrlPrivate == Url("http", "d", <<"docs", "private">>)
UrlFtp == Url("ftp", "d", <<"docs", "f">>)
UrlNoHost == Url("https", "", <<"docs", "n">>)
UrlBlog == Url("http", "d", <<"blog">>)

\* The site: the links of each page that answers, in document order, and
\* the pages whose text is shorter than 200 characters.
SampleSite ==
    [links |-> (PgA :> <<PgD, PgB, PgE, UrlOther>>) @@ (PgB :> <<PgT, PgA, UrlPrivate>>)
               @@ (PgD :> <<PgB, UrlFtp>>) @@ (PgE :> <<PgL, UrlBlog, UrlNoHost>>)
               @@ (PgT :> <<PgA>>) @@ (PgL :> <<>>),
     thin |-> {PgT}]

AllUrls == DOMAIN SampleSite.links \cup {UrlOther, UrlPrivate, UrlFtp, UrlNoHost, UrlBlog}

\* url.startswith(p), for a prefix that ends at a path segment.
StartsWith(url, p) ==
    /\ url.scheme = p.scheme
    /\ url.netloc = p.netloc
    /\ Len(p.path) <= Len(url.path)
    /\ SubSeq(url.path, 1, Len(p.path)) = p.path

\* re.search(pat, url), for a pattern that is one literal path segment.
Search(pat, url) == \E i \in 1..Len(url.path) : url.path[i] = pat

should_skip_url(url, allowed_domains, allowed_prefixes, exclude_patterns) ==
    \/ url.scheme \notin {"http", "https"}
    \/ (url.netloc # "" /\ url.netloc \notin allowed_domains)
    \/ (/\ allowed_prefixes # <<>>
        /\ ~\E i \in 1..Len(allowed_prefixes) : StartsWith(url, allowed_prefixes[i]))
    \/ \E i \in 1..Len(exclude_patterns) : Search(exclude_patterns[i], url)

\* `spec.x or x`: an Optional[int] is <<>> for None and <<n>> for n.
OrDefault(optional, default) ==
    IF optional # <<>> /\ optional[1] # 0 THEN optional[1] ELSE default

\* max_pages = spec.max_pages or max_pages; max_depth = spec.max_depth or max_depth
max_pages(cfg) == OrDefault(cfg.spec_max_pages, cfg.max_pages)
max_depth(cfg) == OrDefault(cfg.spec_max_depth, cfg.max_depth)

\* A crawl that takes a failed fetch for a page.
StoredThoughFailed(url, env) ==
    /\ url \in DOMAIN env.links
    /\ url \notin env.thin

\* What crawl_urls_parallel returns for url has a text, of 200 characters
\* or more.
Stored(url, env) ==
    /\ url \in DOMAIN env.links
    /\ url \notin env.failing
    /\ url \notin env.thin

\* while queue and len(fetched_content) < max_pages
LoopCondition(st, cfg) ==
    st.queue # <<>> /\ Len(st.fetched_content) < max_pages(cfg)

\* The for loop that takes batch_size entries from the queue.
CollectBatch(st, cfg, batch_size) ==
    LET Pop(c, entry) ==
            IF /\ entry.url \notin c.visited
               /\ should_skip_url(entry.url, cfg.allowed_domains,
                                  cfg.allowed_url_prefixes, cfg.exclude_url_patterns)
            THEN [c EXCEPT !.queue = Tail(@)]
            ELSE [queue |-> Tail(c.queue), visited |-> c.visited \cup {entry.url},
                  batch |-> Append(c.batch, entry)]
        Popped(c) == Pop(c, Head(c.queue))
        F[i \in 0..batch_size] ==
            IF i = 0 THEN [queue |-> st.queue, visited |-> st.visited, batch |-> <<>>]
            ELSE Popped(F[i - 1])
    IN F[batch_size]

\* The loop over zip(batch_metadata, batch_results): acc = [fetched_content,
\* new_links].
ProcessResults(fetched, batch, seen, cfg, env) ==
    LET AddLink(acc, link, depth) ==
            IF /\ link \notin seen
               /\ Len(acc.fetched_content) + Len(acc.new_links) < max_pages(cfg)
            THEN [acc EXCEPT !.new_links = Append(@, [url |-> link, depth |-> depth + 1])]
            ELSE acc
        ExtractLinks(acc, links, depth) ==
            LET G[j \in 0..Len(links)] ==
                    IF j = 0 THEN acc ELSE AddLink(G[j - 1], links[j], depth)
            IN G[Len(links)]
        \* fetched_content[url] = ...: a key keeps its place
        Store(acc, url) ==
            IF \E i \in 1..Len(acc.fetched_content) : acc.fetched_content[i] = url
            THEN acc
            ELSE [acc EXCEPT !.fetched_content = Append(@, url)]
        Result(acc, entry) ==
            IF ~Stored(entry.url, env) THEN acc
            ELSE IF entry.depth < max_depth(cfg)
                 THEN ExtractLinks(Store(acc, entry.url), env.links[entry.url], entry.depth)
                 ELSE Store(acc, entry.url)
        F[i \in 0..Len(batch)] ==
            IF i = 0 THEN [fetched_content |-> fetched, new_links |-> <<>>]
            ELSE Result(F[i - 1], batch[i])
    IN F[Len(batch)]

\* One iteration of the while loop.  st = [queue, visited, fetched_content,
\* fetches].
Iteration(st, cfg, env) ==
    LET Fetched(c, r) ==
            [queue |-> c.queue \o r.new_links, visited |-> c.visited,
             fetched_content |-> r.fetched_content, fetches |-> st.fetches \o c.batch]
        Collected(c) ==
            IF c.batch = <<>> THEN [st EXCEPT !.queue = c.queue]
            ELSE Fetched(c, ProcessResults(st.fetched_content, c.batch, c.visited, cfg, env))
    IN Collected(CollectBatch(st, cfg,
                              Min(Min(cfg.max_concurrent, Len(st.queue)),
                                  max_pages(cfg) - Len(st.fetched_content))))

\* The tracking structures before the loop.
CrawlStart(cfg) ==
    [queue |-> [i \in 1..Len(cfg.start_urls) |-> [url |-> cfg.start_urls[i], depth |-> 0]],
     visited |-> {}, fetched_content |-> <<>>, fetches |-> <<>>]

\* The documents made of fetched_content.
DocumentsOf(fetched) == [i \in 1..Len(fetched) |-> [url_or_path |-> fetched[i]]]

StartUrlLists == UNION {[1..n -> AllUrls] : n \in 1..MaxStartUrls}

\* The crawl specs and defaults of the sample deployments.
CrawlConfigs ==
    [start_urls : StartUrlLists,
     allowed_domains : {{"d"}},
     allowed_url_prefixes : {<<>>, <<Url("http", "d", <<"docs">>),
                                     Url("https", "d", <<"docs">>)>>},
     exclude_url_patterns : {<<"private">>},
     spec_max_pages : {<<>>, <<1>>, <<4>>},
     spec_max_depth : {<<>>, <<0>>, <<2>>},
     max_pages : {3},
     max_depth : {1},
     max_concurrent : {1, 2}]

CrawlEnvs ==
    {[links |-> SampleSite.links, thin |-> SampleSite.thin, failing |-> f] :
        f \in {x \in SUBSET (DOMAIN SampleSite.links) : Cardinality(x) <= MaxFailing}}

CrawlInit ==
    /\ crCfg \in CrawlConfigs
    /\ crEnv \in CrawlEnvs
    /\ queue = CrawlStart(crCfg).queue
    /\ visited = {}
    /\ fetched_content = <<>>
    /\ fetches = <<>>
    /\ documents = <<>>
    /\ crpc = "loop"

\* No crawl.
CrawlIdle ==
    /\ crCfg = [start_urls |-> <<>>, allowed_domains |-> {}, allowed_url_prefixes |-> <<>>,
                exclude_url_patterns |-> <<>>, spec_max_pages |-> <<>>,
                spec_max_depth |-> <<>>, max_pages |-> 1, max_depth |-> 1,
                max_concurrent |-> 1]
    /\ crEnv = [links |-> <<>>, thin |-> {}, failing |-> {}]
    /\ queue = <<>>
    /\ visited = {}
    /\ fetched_content = <<>>
    /\ fetches = <<>>
    /\ documents = <<>>
    /\ crpc = "done"

CrawlState == [queue |-> queue, visited |-> visited,
               fetched_content |-> fetched_content, fetches |-> fetches]

\* One pass through the body of the while loop.
CrawlBatch ==
    /\ crpc = "loop"
    /\ LoopCondition(CrawlState, crCfg)
    /\ \E next \in {Iteration(CrawlState, crCfg, crEnv)} :
          /\ queue' = next.queue
          /\ visited' = next.visited
          /\ fetched_content' = next.fetched_content
          /\ fetches' = next.fetches
    /\ UNCHANGED <<crCfg, crEnv, documents, crpc, notCrawlVars>>

\* The loop has ended: the documents are built and returned.
CrawlReturn ==
    /\ crpc = "loop"
    /\ ~LoopCondition(CrawlState, crCfg)
    /\ documents' = DocumentsOf(fetched_content)
    /\ crpc' = "done"
    /\ UNCHANGED <<crCfg, crEnv, queue, visited, fetched_content, fetches, notCrawlVars>>

CrawlNext == CrawlBatch \/ CrawlReturn

(***************************************************************************)
(*             RETRIEVAL: rrf_fuse, retrieve_evidence                      *)
(* A score is a fraction [num, den] with den > 0.                          *)
(***************************************************************************)

\* Bounds on the retrieval's inputs.
MaxHits == 3
MaxRerankItems == 2

Frac(n, d) == [num |-> n, den |-> d]
FracSum(a, b) == Frac(a.num * b.den + b.num * a.den, a.den * b.den)
FracLess(a, b) == a.num * b.den < b.num * a.den
FracEq(a, b) == a.num * b.den = b.num * a.den

\* enumerate(lst, start=0): the ranks counted from 0.
RankFromZero(position) == position - 1

\* enumerate(lst, start=1): the rank of the element at position, the first
\* position being 1.
Rank(position) == position

\* scores[doc_id] = scores.get(doc_id, 0.0) + add: a new key goes last, a
\* known key keeps its place.
AddScore(scores, doc_id, add) ==
    IF \E i \in 1..Len(scores) : scores[i].id = doc_id
    THEN [i \in 1..Len(scores) |->
            IF scores[i].id = doc_id
            THEN [id |-> doc_id, score |-> FracSum(scores[i].score, add)]
            ELSE scores[i]]
    ELSE Append(scores, [id |-> doc_id, score |-> FracSum(Frac(0, 1), add)])

\* The dict rrf_fuse returns, as its items in insertion order.
rrf_fuse(ranked_lists, k) ==
    LET OverList(scores, lst) ==
            LET G[j \in 0..Len(lst)] ==
                    IF j = 0 THEN scores
                    ELSE AddScore(G[j - 1], lst[j], Frac(1, k + Rank(j)))
            IN G[Len(lst)]
        F[i \in 0..Len(ranked_lists)] ==
            IF i = 0 THEN <<>> ELSE OverList(F[i - 1], ranked_lists[i])
    IN F[Len(ranked_lists)]

\* sorted(items, key=score): ascending.
SortedByScoreAscending(items) ==
    LET Before(j, i) ==
            \/ FracLess(items[j].score, items[i].score)
            \/ FracEq(items[j].score, items[i].score) /\ j < i
        Place(i) == 1 + Cardinality({j \in 1..Len(items) : Before(j, i)})
    IN [p \in 1..Len(items) |-> items[CHOOSE i \in 1..Len(items) : Place(i) = p]]

\* sorted(items, key=score, reverse=True): descending, and stable: items of
\* equal score keep their order.
SortedByScore(items) ==
    LET Before(j, i) ==
            \/ FracLess(items[i].score, items[j].score)
            \/ FracEq(items[j].score, items[i].score) /\ j < i
        Place(i) == 1 + Cardinality({j \in 1..Len(items) : Before(j, i)})
    IN [p \in 1..Len(items) |-> items[CHOOSE i \in 1..Len(items) : Place(i) = p]]

\* seq[:n]
Take(seq, n) == SubSeq(seq, 1, Min(n, Len(seq)))

\* The (idx, score) of the items whose index is one of the n candidates.
_normalize_rerank(items, n) ==
    LET Usable(it) == 0 <= it.index /\ it.index < n
    IN SelectSeq(items, Usable)

\* cand_chunks, from the best rerank_top_k of the fused items.
CandChunks(candidates) ==
    [i \in 1..Len(candidates) |->
        [chunk_id |-> candidates[i].id, score |-> candidates[i].score]]

\* The evidence, from the candidates and the reranking service's answer.
Evidence(chunks, pairs, evidence_top_k) ==
    LET Reranked(listed) ==
            [i \in 1..Len(listed) |-> listed[i].chunk]
    IN IF pairs = <<>>
       THEN Take(SortedByScore(chunks), evidence_top_k)
       ELSE Take(Reranked(SortedByScore(
                    [i \in 1..Len(pairs) |->
                        [chunk |-> chunks[pairs[i].index + 1],
                         score |-> Frac(pairs[i].relevance_score, 1)]])),
                 evidence_top_k)

ChunkIds == {"A", "B", "C", "D"}

\* The ranked ids of a backend: each id at most once.
RankLists ==
    {r \in UNION {[1..n -> ChunkIds] : n \in 0..MaxHits} :
        \A i, j \in 1..Len(r) : i # j => r[i] # r[j]}

\* The answers of the reranking service to n texts: each item names a text
\* by its index, at most once; the index n + 1 is of no text.
RerankItems(n) == [index : (0..(n - 1)) \cup {n + 1}, relevance_score : {1, 2}]
RerankAnswers(n) ==
    {r \in UNION {[1..m -> RerankItems(n)] : m \in 0..MaxRerankItems} :
        \A i, j \in 1..Len(r) : i # j => r[i].index # r[j].index}

RetrievalInit ==
    /\ rtArgs \in [bm25_rank : RankLists, vec_rank : RankLists, rrf_k : {1, 60},
                    rerank_top_k : {2, 4}, evidence_top_k : {1, 3}]
    /\ rtpc = "start"
    /\ fused = <<>>
    /\ cand_chunks = <<>>
    /\ rerank_json = <<>>
    /\ evidence = <<>>

\* No retrieval.
RetrievalIdle ==
    /\ rtArgs = [bm25_rank |-> <<>>, vec_rank |-> <<>>, rrf_k |-> 60,
                 rerank_top_k |-> 1, evidence_top_k |-> 1]
    /\ rtpc = "done"
    /\ fused = <<>>
    /\ cand_chunks = <<>>
    /\ rerank_json = <<>>
    /\ evidence = <<>>

\* From the two searches to the call of the reranking service.
FuseAndSelect ==
    /\ rtpc = "start"
    /\ fused' = rrf_fuse(<<rtArgs.bm25_rank, rtArgs.vec_rank>>, rtArgs.rrf_k)
    /\ cand_chunks' = CandChunks(Take(SortedByScore(fused'), rtArgs.rerank_top_k))
    /\ rtpc' = "rerank"
    /\ UNCHANGED <<rtArgs, rerank_json, evidence, notRetrievalVars>>

\* The reranking service has answered: the evidence is ordered and returned.
RerankAndReturn ==
    /\ rtpc = "rerank"
    /\ \E answer \in RerankAnswers(Len(cand_chunks)) :
          /\ rerank_json' = answer
          /\ evidence' = Evidence(cand_chunks,
                                  _normalize_rerank(answer, Len(cand_chunks)),
                                  rtArgs.evidence_top_k)
    /\ rtpc' = "done"
    /\ UNCHANGED <<rtArgs, fused, cand_chunks, notRetrievalVars>>

RetrievalNext == FuseAndSelect \/ RerankAndReturn

(***************************************************************************)
(*                     CRAWL RUN (cli.py, scheduled_crawl.py)              *)
(***************************************************************************)

MaxSources == 2      \* sources of one run
MaxRunSignals == 2   \* signals delivered to one run
NumWriteBatches == 2 \* store write batches of one source's ingestion

\* The clock and the interval, in seconds.
Now == 100
SecondsPerMinute == 60

\* What a source does when it is processed: "ok" crawls and ingests, "dry"
\* is a dry-run source, the other two raise in crawl_sources or in
\* ingest_documents (after its first write batch).
SourceKinds == {"ok", "dry", "crawl_raises", "ingest_raises"}

\* The counts ingest_documents (or the dry-run branch) reports for the
\* source at position idx: distinct per position.
SourceCounts(kind, idx) ==
    IF kind = "dry"
    THEN [documents |-> idx, chunks |-> 2 * idx, points |-> 0, skipped |-> 0,
          updated |-> 0]
    ELSE [documents |-> idx, chunks |-> 2 * idx, points |-> idx,
          skipped |-> idx, updated |-> idx]

ZeroTotals ==
    [sources |-> 0, documents |-> 0, chunks |-> 0, points |-> 0, skipped |-> 0,
     updated |-> 0]

\* totals["sources"] += 1; totals[k] += int(res.get(k, 0)).
AddTotals(t, res) ==
    [sources |-> t.sources + 1,
     documents |-> t.documents + res.documents,
     chunks |-> t.chunks + res.chunks,
     points |-> t.points + res.points,
     skipped |-> t.skipped + res.skipped,
     updated |-> t.updated + res.updated]

\* cli.py _is_process_running: os.kill(pid, 0) succeeds for a live process
\* the caller may signal; it raises ProcessLookupError for a dead one and
\* PermissionError (an OSError) for a live one of another user.
ProbeSaysRunning(file) == file = "live"

\* _acquire_lock of either program against the lock file found, with no
\* other process acting: TRUE iff it returns a descriptor.
\* scheduled_crawl.py: FileExistsError -> RuntimeError.
\* cli.py: a non-empty pid of a running process -> RuntimeError, otherwise
\* unlink and acquire again.
_acquire_lock(program, file) ==
    IF file = "absent" THEN TRUE
    ELSE IF program = "scheduled" THEN FALSE
    ELSE IF file # "empty" /\ ProbeSaysRunning(file) THEN FALSE
    ELSE TRUE

\* A due test that wants more than the interval to have elapsed.
_should_run_later(interval_minutes, last_run) ==
    IF interval_minutes <= 0 THEN FALSE
    ELSE IF last_run = <<>> THEN TRUE
    ELSE (Now - last_run[1]) > (interval_minutes * SecondsPerMinute)

\* scheduled_crawl.py _should_run; last_run is <<>> for None.
_should_run(interval_minutes, last_run) ==
    IF interval_minutes <= 0 THEN FALSE
    ELSE IF last_run = <<>> THEN TRUE
    ELSE (Now - last_run[1]) >= (interval_minutes * SecondsPerMinute)

NoOutcome == [how |-> "none", ran |-> FALSE, reason |-> ""]
Returned(ran, reason) == [how |-> "returned", ran |-> ran, reason |-> reason]

\* An exception leaving the run function.  cli.py main catches Exception,
\* prints ran = false with "Fatal error" and an error field, and exits 1;
\* scheduled_crawl_cli.py main catches nothing.
Raised(program, reason) ==
    IF program = "cli"
    THEN [how |-> "fatal", ran |-> FALSE, reason |-> reason]
    ELSE [how |-> "uncaught", ran |-> FALSE, reason |-> reason]

Killed == [how |-> "killed", ran |-> FALSE, reason |-> ""]

SourceSeqs == UNION {[1..n -> SourceKinds] : n \in 0..MaxSources}

RunConfigs ==
    [program : {"cli", "scheduled"},
     force : BOOLEAN,
     interval_minutes : {-1, 0, 1},
     last_run : {<<>>, <<Now - SecondsPerMinute>>, <<Now - SecondsPerMinute + 1>>},
     sources : SourceSeqs,
     lock_file : {"absent", "live", "live_foreign", "stale", "empty"}]

RunInit ==
    /\ rCfg \in RunConfigs
    /\ rpc = "start"
    /\ rLockFile = rCfg.lock_file
    /\ _SHUTDOWN_REQUESTED = FALSE
    /\ rSignals = 0
    /\ rIdx = 1
    /\ rBatch = 1
    /\ totals = ZeroTotals
    /\ errors = <<>>
    /\ per_source = <<>>
    /\ rStarted = <<>>
    /\ rWrites = {}
    /\ rProbed = FALSE
    /\ rAcquired = FALSE
    /\ rLastRun = rCfg.last_run
    /\ rOutcome = NoOutcome

\* No run.
RunIdle ==
    /\ rCfg = [program |-> "cli", force |-> FALSE, interval_minutes |-> 0,
               last_run |-> <<>>, sources |-> <<>>, lock_file |-> "absent"]
    /\ rpc = "exited"
    /\ rLockFile = "absent"
    /\ _SHUTDOWN_REQUESTED = FALSE
    /\ rSignals = 0
    /\ rIdx = 1
    /\ rBatch = 1
    /\ totals = ZeroTotals
    /\ errors = <<>>
    /\ per_source = <<>>
    /\ rStarted = <<>>
    /\ rWrites = {}
    /\ rProbed = FALSE
    /\ rAcquired = FALSE
    /\ rLastRun = <<>>
    /\ rOutcome = NoOutcome

\* cli.py run_crawl, up to the lock: no sources -> ran = false.
CheckSources ==
    /\ rpc = "start"
    /\ rCfg.program = "cli"
    /\ IF rCfg.sources = <<>>
       THEN /\ rOutcome' = Returned(FALSE, "No sources defined")
            /\ rpc' = "exited"
       ELSE /\ rOutcome' = rOutcome
            /\ rpc' = "acquire"
    /\ UNCHANGED <<rCfg, rLockFile, _SHUTDOWN_REQUESTED, rSignals, rIdx, rBatch,
                   totals, errors, per_source, rStarted, rWrites, rProbed,
                   rAcquired, rLastRun, notRunVars>>

\* scheduled_crawl.py run_scheduled_crawl, up to the lock: the due decision.
CheckDue ==
    /\ rpc = "start"
    /\ rCfg.program = "scheduled"
    /\ IF rCfg.interval_minutes = 0 /\ ~rCfg.force
       THEN /\ rOutcome' = Returned(FALSE, "disabled (interval_minutes=0)")
            /\ rpc' = "exited"
       ELSE IF ~rCfg.force /\ ~_should_run(rCfg.interval_minutes, rLastRun)
       THEN /\ rOutcome' = Returned(FALSE, "not due yet")
            /\ rpc' = "exited"
       ELSE /\ rOutcome' = rOutcome
            /\ rpc' = "acquire"
    /\ UNCHANGED <<rCfg, rLockFile, _SHUTDOWN_REQUESTED, rSignals, rIdx, rBatch,
                   totals, errors, per_source, rStarted, rWrites, rProbed,
                   rAcquired, rLastRun, notRunVars>>

\* lock_fd = _acquire_lock(...), before the try: a RuntimeError leaves the
\* run function.
AcquireLock ==
    /\ rpc = "acquire"
    /\ IF _acquire_lock(rCfg.program, rLockFile)
       THEN /\ rLockFile' = "own"
            /\ rAcquired' = TRUE
            /\ rOutcome' = rOutcome
            /\ rpc' = IF rCfg.program = "cli" THEN "setup" ELSE "sources"
       ELSE /\ rLockFile' = rLockFile
            /\ rAcquired' = rAcquired
            /\ rOutcome' = Raised(rCfg.program, "Lock already held")
            /\ rpc' = "exited"
    /\ UNCHANGED <<rCfg, _SHUTDOWN_REQUESTED, rSignals, rIdx, rBatch, totals,
                   errors, per_source, rStarted, rWrites, rProbed, rLastRun,
                   notRunVars>>

\* scheduled_crawl.py, inside the try: if not sources: return ran = false.
ReadSources ==
    /\ rpc = "sources"
    /\ IF rCfg.sources = <<>>
       THEN /\ rOutcome' = Returned(FALSE, "no sources")
            /\ rpc' = "finally"
       ELSE /\ rOutcome' = rOutcome
            /\ rpc' = "setup"
    /\ UNCHANGED <<rCfg, rLockFile, _SHUTDOWN_REQUESTED, rSignals, rIdx, rBatch,
                   totals, errors, per_source, rStarted, rWrites, rProbed,
                   rAcquired, rLastRun, notRunVars>>

\* The stores and the dimension probe tei.embed_one, inside the try: an
\* exception here leaves the run function through the finally.
SetupStores ==
    /\ rpc = "setup"
    /\ rProbed' = TRUE
    /\ \E ok \in BOOLEAN :
         IF ok
         THEN /\ rOutcome' = rOutcome
              /\ rpc' = "loop"
         ELSE /\ rOutcome' = Raised(rCfg.program, "setup failed")
              /\ rpc' = "finally"
    /\ UNCHANGED <<rCfg, rLockFile, _SHUTDOWN_REQUESTED, rSignals, rIdx, rBatch,
                   totals, errors, per_source, rStarted, rWrites, rAcquired,
                   rLastRun, notRunVars>>

\* The source loop with no test of the shutdown flag.
LoopHeadNoBreak ==
    /\ rpc = "loop"
    /\ IF rIdx > Len(rCfg.sources)
       THEN /\ rpc' = "return"
            /\ rStarted' = rStarted
       ELSE /\ rpc' = "crawl"
            /\ rStarted' = Append(rStarted,
                                  [source |-> rIdx,
                                   after_request |-> _SHUTDOWN_REQUESTED])
    /\ UNCHANGED <<rCfg, rLockFile, _SHUTDOWN_REQUESTED, rSignals, rIdx, rBatch,
                   totals, errors, per_source, rWrites, rProbed, rAcquired,
                   rLastRun, rOutcome, notRunVars>>

\* The head of the source loop.  cli.py: if _SHUTDOWN_REQUESTED: break.
\* scheduled_crawl.py has no such test.  rStarted notes each source that is
\* started and whether a shutdown request had been received by then.
LoopHead ==
    /\ rpc = "loop"
    /\ IF rIdx > Len(rCfg.sources)
          \/ (rCfg.program = "cli" /\ _SHUTDOWN_REQUESTED)
       THEN /\ rpc' = "return"
            /\ rStarted' = rStarted
       ELSE /\ rpc' = "crawl"
            /\ rStarted' = Append(rStarted,
                                  [source |-> rIdx,
                                   after_request |-> _SHUTDOWN_REQUESTED])
    /\ UNCHANGED <<rCfg, rLockFile, _SHUTDOWN_REQUESTED, rSignals, rIdx, rBatch,
                   totals, errors, per_source, rWrites, rProbed, rAcquired,
                   rLastRun, rOutcome, notRunVars>>

\* The loop body's exception leaving run_crawl, as if it had no handler.
SourceRaisesUnhandled(reason) ==
    /\ errors' = errors
    /\ per_source' = per_source
    /\ rIdx' = rIdx
    /\ rpc' = "finally"
    /\ rOutcome' = Raised(rCfg.program, reason)

\* An exception in the body of the loop.  cli.py: except Exception records it
\* in errors and per_source and the loop goes on; scheduled_crawl.py has no
\* handler, the exception leaves through the finally.
SourceRaises(reason) ==
    IF rCfg.program = "cli"
    THEN /\ errors' = Append(errors, [source |-> rIdx, error |-> reason])
         /\ per_source' = Append(per_source,
                                 [name |-> rIdx, error |-> reason])
         /\ rIdx' = rIdx + 1
         /\ rpc' = "loop"
         /\ rOutcome' = rOutcome
    ELSE /\ errors' = errors
         /\ per_source' = per_source
         /\ rIdx' = rIdx
         /\ rpc' = "finally"
         /\ rOutcome' = Raised(rCfg.program, reason)

\* docs = await crawl_sources(...), and the dry-run branch.
CrawlSource ==
    /\ rpc = "crawl"
    /\ LET kind == rCfg.sources[rIdx] IN
         IF kind = "crawl_raises"
         THEN /\ SourceRaises("crawl failed")
              /\ totals' = totals
         ELSE IF kind = "dry"
         THEN /\ per_source' = Append(per_source,
                                      [name |-> rIdx, dry_run |-> TRUE,
                                       res |-> SourceCounts(kind, rIdx)])
              /\ totals' = AddTotals(totals, SourceCounts(kind, rIdx))
              /\ rIdx' = rIdx + 1
              /\ rpc' = "loop"
              /\ UNCHANGED <<errors, rOutcome>>
         ELSE /\ rpc' = "ingest"
              /\ UNCHANGED <<errors, per_source, totals, rIdx, rOutcome>>
    /\ rBatch' = 1
    /\ UNCHANGED <<rCfg, rLockFile, _SHUTDOWN_REQUESTED, rSignals, rStarted,
                   rWrites, rProbed, rAcquired, rLastRun, notRunVars>>

\* One write batch of ingest_documents (upsert_points, upsert_chunks).
IngestBatch ==
    /\ rpc = "ingest"
    /\ rBatch <= NumWriteBatches
    /\ IF rCfg.sources[rIdx] = "ingest_raises" /\ rBatch > 1
       THEN /\ SourceRaises("ingest failed")
            /\ UNCHANGED <<rWrites, rBatch>>
       ELSE /\ rWrites' = rWrites \cup {<<rIdx, rBatch>>}
            /\ rBatch' = rBatch + 1
            /\ UNCHANGED <<errors, per_source, rIdx, rpc, rOutcome>>
    /\ UNCHANGED <<rCfg, rLockFile, _SHUTDOWN_REQUESTED, rSignals, totals,
                   rStarted, rProbed, rAcquired, rLastRun, notRunVars>>

\* ingest_documents returned: per_source.append, totals updated.
FinishSource ==
    /\ rpc = "ingest"
    /\ rBatch > NumWriteBatches
    /\ per_source' = Append(per_source,
                            [name |-> rIdx, dry_run |-> FALSE,
                             res |-> SourceCounts(rCfg.sources[rIdx], rIdx)])
    /\ totals' = AddTotals(totals, SourceCounts(rCfg.sources[rIdx], rIdx))
    /\ rIdx' = rIdx + 1
    /\ rpc' = "loop"
    /\ UNCHANGED <<rCfg, rLockFile, _SHUTDOWN_REQUESTED, rSignals, rBatch,
                   errors, rStarted, rWrites, rProbed, rAcquired, rLastRun,
                   rOutcome, notRunVars>>

\* After the loop: scheduled_crawl.py saves the last-run time; both return
\* ran = true with the totals.
ReturnResult ==
    /\ rpc = "return"
    /\ rLastRun' = IF rCfg.program = "scheduled" THEN <<Now>> ELSE rLastRun
    /\ rOutcome' = Returned(TRUE, "")
    /\ rpc' = "finally"
    /\ UNCHANGED <<rCfg, rLockFile, _SHUTDOWN_REQUESTED, rSignals, rIdx, rBatch,
                   totals, errors, per_source, rStarted, rWrites, rProbed,
                   rAcquired, notRunVars>>

\* finally: _release_lock(lock_fd, lock_file) unlinks the file; the process
\* then ends with the outcome reached.
ReleaseInFinally ==
    /\ rpc = "finally"
    /\ rLockFile' = "absent"
    /\ rpc' = "exited"
    /\ UNCHANGED <<rCfg, _SHUTDOWN_REQUESTED, rSignals, rIdx, rBatch, totals,
                   errors, per_source, rStarted, rWrites, rProbed, rAcquired,
                   rLastRun, rOutcome, notRunVars>>

\* The process ends at once, nothing more of it runs: os._exit, or the
\* default action of SIGTERM.
ExitNow ==
    /\ rpc' = "exited"
    /\ rOutcome' = Killed
    /\ UNCHANGED <<_SHUTDOWN_REQUESTED, rLockFile>>

\* KeyboardInterrupt at the process's position: through the finally when
\* the position is inside the try.
Interrupt ==
    /\ rOutcome' = [how |-> "uncaught", ran |-> FALSE,
                    reason |-> "KeyboardInterrupt"]
    /\ rpc' = IF rpc \in {"start", "acquire"} THEN "exited" ELSE "finally"
    /\ UNCHANGED <<_SHUTDOWN_REQUESTED, rLockFile>>

\* A SIGINT or SIGTERM delivered to the running process.
\* cli.py signal_handler: the first sets _SHUTDOWN_REQUESTED, the second
\* calls os._exit(128 + signum).  scheduled_crawl_cli.py installs no
\* handler: SIGINT raises KeyboardInterrupt, SIGTERM ends the process.
Signal(sig) ==
    /\ rpc # "exited"
    /\ rSignals < MaxRunSignals
    /\ rSignals' = rSignals + 1
    /\ IF rCfg.program = "cli"
       THEN IF _SHUTDOWN_REQUESTED
            THEN ExitNow
            ELSE /\ _SHUTDOWN_REQUESTED' = TRUE
                 /\ UNCHANGED <<rpc, rOutcome, rLockFile>>
       ELSE IF sig = "SIGINT" THEN Interrupt ELSE ExitNow
    /\ UNCHANGED <<rCfg, rIdx, rBatch, totals, errors, per_source, rStarted,
                   rWrites, rProbed, rAcquired, rLastRun, notRunVars>>

RunNext ==
    \/ CheckSources
    \/ CheckDue
    \/ AcquireLock
    \/ ReadSources
    \/ SetupStores
    \/ LoopHead
    \/ CrawlSource
    \/ IngestBatch
    \/ FinishSource
    \/ ReturnResult
    \/ ReleaseInFinally
    \/ \E sig \in {"SIGINT", "SIGTERM"} : Signal(sig)

(***************************************************************************)
(*        RERANK BATCHING: the reranking step of retrieve_evidence         *)
(***************************************************************************)

\* Bound on the candidates of one reranking.
MaxCandidates == 11

\* batch_size = 10
rerank_batch_size == 10

\* The candidates in the order of their assembly, the best fused score
\* first: candidate g has the fused score 1/g.
RerankCandidates(n) == [g \in 1..n |-> [chunk_id |-> g, score |-> Frac(1, g)]]

\* tei.rerank(query, texts): r.json() of the service, which scores each text
\* by itself and names it by its index in the request.  A text is named
\* here by its candidate; the answer has the shape the service uses: an
\* object with "results", an object with "data", or a bare list.
rerank(texts, scores, shape) ==
    [shape |-> shape,
     items |-> [j \in 1..Len(texts) |->
                   [index |-> j - 1, relevance_score |-> scores[texts[j]]]]]

\* items = rerank_json.get("results") or rerank_json.get("data") or [] for
\* a dict, rerank_json or [] for a list.
ItemsOf(answer) == answer.items

\* rj.get("results", []) of one batch's answer; a list has no get.
ResultsOf(rj) == IF rj.shape = "results" THEN rj.items ELSE <<>>

\* item["index"] += start_idx
ShiftIndex(items, start_idx) ==
    [j \in 1..Len(items) |-> [items[j] EXCEPT !.index = @ + start_idx]]

\* What the reranking step ends with.
RerankReturned(ranking) == [how |-> "returned", ranking |-> ranking]
RerankRaised(exception) == [how |-> exception, ranking |-> <<>>]
NoRerank == [how |-> "none", ranking |-> <<>>]

\* len(texts) <= batch_size: one call, normalised and ranked.
single_call(n, scores, shape, evidence_top_k) ==
    RerankReturned(Evidence(RerankCandidates(n),
                            _normalize_rerank(ItemsOf(rerank([g \in 1..n |-> g],
                                                             scores, shape)), n),
                            evidence_top_k))

\* The else branch: the batches texts[i:i+batch_size], their answers
\* combined under "results" with shifted indices, normalised and ranked.
batched_calls(n, scores, shape, evidence_top_k) ==
    LET Batch(b) == [j \in 1..Min(rerank_batch_size, n - b * rerank_batch_size) |->
                        b * rerank_batch_size + j]
        Answer(b) == rerank(Batch(b), scores, shape)
        F[b \in 0..NumSlices(n, rerank_batch_size)] ==
            IF b = 0 THEN <<>>
            ELSE F[b - 1] \o ShiftIndex(ResultsOf(Answer(b - 1)),
                                        (b - 1) * rerank_batch_size)
    IN IF shape = "list" THEN RerankRaised("AttributeError")
       ELSE RerankReturned(Evidence(RerankCandidates(n),
                                    _normalize_rerank(F[NumSlices(n, rerank_batch_size)], n),
                                    evidence_top_k))

RerankInit ==
    /\ \E n \in {2, rerank_batch_size, MaxCandidates} :
          rkArgs \in [n : {n}, scores : [1..n -> {1, 2}],
                      shape : {"results", "data", "list"},
                      evidence_top_k : {1, n}]
    /\ rkpc = "start"
    /\ rkOut = NoRerank

\* No reranking.
RerankIdle ==
    /\ rkArgs = [n |-> 0, scores |-> <<>>, shape |-> "results", evidence_top_k |-> 1]
    /\ rkpc = "done"
    /\ rkOut = NoRerank

\* if len(texts) <= batch_size
RerankSingle ==
    /\ rkpc = "start"
    /\ rkArgs.n <= rerank_batch_size
    /\ rkOut' = single_call(rkArgs.n, rkArgs.scores, rkArgs.shape, rkArgs.evidence_top_k)
    /\ rkpc' = "done"
    /\ UNCHANGED <<rkArgs, notRerankVars>>

\* else
RerankBatched ==
    /\ rkpc = "start"
    /\ rkArgs.n > rerank_batch_size
    /\ rkOut' = batched_calls(rkArgs.n, rkArgs.scores, rkArgs.shape, rkArgs.evidence_top_k)
    /\ rkpc' = "done"
    /\ UNCHANGED <<rkArgs, notRerankVars>>

RerankNext == RerankSingle \/ RerankBatched

(***************************************************************************)
(*     EVIDENCE ASSEMBLY: the searches and cand_chunks of one call         *)
(* A Python value is [kind, val]: a str, or a list of values; a dict is    *)
(* [kind |-> "dict", fields |-> its items].  None is <<>>, a value v <<v>>.*)
(***************************************************************************)

\* Bound on the hits a backend's query matches.
MaxMatches == 2

Str(s) == [kind |-> "str", val |-> s]
List(vs) == [kind |-> "list", val |-> vs]
Dict(fields) == [kind |-> "dict", fields |-> fields]
EmptyDict == Dict(<<>>)

\* The chunks of the sample corpus, as one ingestion wrote them to both
\* stores.
CorpusIds == {"K1", "K2", "K3"}
CorpusChunk(id) ==
    [chunk_id |-> id,
     title |-> IF id = "K1" THEN "t1" ELSE IF id = "K2" THEN "t2" ELSE "t3",
     source |-> "official_docs",
     url_or_path |-> IF id = "K3" THEN "u2" ELSE "u1",
     vendor |-> IF id = "K2" THEN "v2" ELSE "v1",
     text |-> id]

\* The payload the vector store holds for a chunk: a dict of strings.
PayloadOf(c) ==
    Dict([chunk_id |-> Str(c.chunk_id), title |-> Str(c.title), source |-> Str(c.source),
          url_or_path |-> Str(c.url_or_path), vendor |-> Str(c.vendor),
          text |-> Str(c.text)])

\* stored = doc.to_dict() of the keyword index: each stored field with the
\* list of its values (the search reads stored.get("chunk_id")[0]); text is
\* not a stored field.
StoredOf(c) ==
    Dict([chunk_id |-> List(<<Str(c.chunk_id)>>), title |-> List(<<Str(c.title)>>),
          source |-> List(<<Str(c.source)>>),
          url_or_path |-> List(<<Str(c.url_or_path)>>),
          vendor |-> List(<<Str(c.vendor)>>)])

\* _safe_extract: the str under the key of a dict; str(x[0]) of a non-empty
\* list; "" otherwise.
_safe_extract(x, key) ==
    IF x.kind = "dict"
    THEN (IF key \in DOMAIN x.fields /\ x.fields[key].kind = "str"
          THEN x.fields[key].val ELSE "")
    ELSE IF x.kind = "list" /\ Len(x.val) > 0 THEN x.val[1].val
    ELSE ""

\* a or b, of two strings
OrElse(a, b) == IF a # "" THEN a ELSE b

\* payload.get(key): None for a key the dict has not.
Get(payload, key) ==
    IF key \in DOMAIN payload.fields THEN <<payload.fields[key].val>> ELSE <<>>

\* TantivyBM25.search(query, top_n): the documents the query matches, best
\* first, with their stored fields; no filter is passed or applied.
bm25_search(matches) ==
    [i \in 1..Len(matches) |->
        [chunk_id |-> matches[i], stored |-> StoredOf(CorpusChunk(matches[i]))]]

\* QdrantVectorStore.search(vector, top_n, filters): the nearest points that
\* match every filter whose value is not None, nearest first.
vec_search(nearest, filters) ==
    LET Matches(id) ==
            \A k \in DOMAIN filters :
                filters[k] # <<>> => CorpusChunk(id)[k] = filters[k][1]
        kept == SelectSeq(nearest, Matches)
    IN [i \in 1..Len(kept) |->
           [chunk_id |-> kept[i], payload |-> PayloadOf(CorpusChunk(kept[i]))]]

\* {h.chunk_id: h.<field> for h in hits}.get(chunk_id, {}): a later hit of
\* the same id wins.
ById(hits, field, chunk_id) ==
    LET at == {i \in 1..Len(hits) : hits[i].chunk_id = chunk_id}
    IN IF at = {} THEN EmptyDict
       ELSE hits[CHOOSE i \in at : \A j \in at : j <= i][field]

\* One EvidenceChunk of cand_chunks.
EvidenceChunk(chunk_id, fused_score, payload, stored) ==
    [chunk_id |-> chunk_id,
     title |-> OrElse(_safe_extract(payload, "title"), _safe_extract(stored, "title")),
     source |-> OrElse(_safe_extract(payload, "source"), _safe_extract(stored, "source")),
     url_or_path |-> OrElse(_safe_extract(payload, "url_or_path"),
                            _safe_extract(stored, "url_or_path")),
     vendor |-> Get(payload, "vendor"),
     score |-> fused_score]

\* cand_chunks of the fused candidates.
Assemble(candidates, bhits, vhits) ==
    [i \in 1..Len(candidates) |->
        EvidenceChunk(candidates[i].id, candidates[i].score,
                      ById(vhits, "payload", candidates[i].id),
                      ById(bhits, "stored", candidates[i].id))]

\* The ranked ids a query matches in a backend: each id at most once.
MatchLists ==
    {r \in UNION {[1..n -> CorpusIds] : n \in 0..MaxMatches} :
        \A i, j \in 1..Len(r) : i # j => r[i] # r[j]}

AssemblyInit ==
    /\ evArgs \in [bm25_matches : MatchLists, nearest : MatchLists,
                   filters : {[vendor |-> v] : v \in {<<>>, <<"v1">>, <<"v2">>}},
                   rrf_k : {60}, rerank_top_k : {1, 4}, evidence_top_k : {1, 4}]
    /\ evpc = "start"
    /\ bm25_hits = <<>>
    /\ vec_hits = <<>>
    /\ assembled = <<>>
    /\ evReturned = <<>>

\* No call.
AssemblyIdle ==
    /\ evArgs = [bm25_matches |-> <<>>, nearest |-> <<>>, filters |-> [vendor |-> <<>>],
                 rrf_k |-> 60, rerank_top_k |-> 1, evidence_top_k |-> 1]
    /\ evpc = "done"
    /\ bm25_hits = <<>>
    /\ vec_hits = <<>>
    /\ assembled = <<>>
    /\ evReturned = <<>>

\* bm25_hits = deps.bm25.search(query, ...); vec_hits = deps.vec.search(...,
\* filters=qdrant_filters)
SearchBackends ==
    /\ evpc = "start"
    /\ bm25_hits' = bm25_search(evArgs.bm25_matches)
    /\ vec_hits' = vec_search(evArgs.nearest, evArgs.filters)
    /\ evpc' = "searched"
    /\ UNCHANGED <<evArgs, assembled, evReturned, notAssemblyVars>>

\* fused, candidates, payload_by_id, stored_by_id, and the loop that builds
\* cand_chunks.
AssembleCandidates ==
    /\ evpc = "searched"
    /\ assembled' =
          Assemble(Take(SortedByScore(rrf_fuse(<<IdsOf(bm25_hits, "chunk_id"),
                                                IdsOf(vec_hits, "chunk_id")>>,
                                              evArgs.rrf_k)),
                        evArgs.rerank_top_k),
                   bm25_hits, vec_hits)
    /\ evpc' = "assembled"
    /\ UNCHANGED <<evArgs, bm25_hits, vec_hits, evReturned, notAssemblyVars>>

\* The reranking service has answered: the evidence is ordered and returned.
RankAssembled ==
    /\ evpc = "assembled"
    /\ \E answer \in RerankAnswers(Len(assembled)) :
          evReturned' = Evidence(assembled, _normalize_rerank(answer, Len(assembled)),
                                 evArgs.evidence_top_k)
    /\ evpc' = "done"
    /\ UNCHANGED <<evArgs, bm25_hits, vec_hits, assembled, notAssemblyVars>>

AssemblyNext == SearchBackends \/ AssembleCandidates \/ RankAssembled

(***************************************************************************)
(*   SCHEDULER: invocations of run_scheduled_crawl on one deployment       *)
(***************************************************************************)

NumInvocations == 2   \* invocations (cron firings, overlapping or not)
TickSeconds == 30     \* the step of the clock
MaxClock == 120       \* the clock stops here

Invocations == 1..NumInvocations

\* last_run.json: the timestamp, and who saved it (0: a run before these
\* invocations).
SavedRun(ts, by) == <<[ts |-> ts, by |-> by]>>

\* _should_run(interval_minutes, state_dir) at the time now, with what
\* _load_last_run reads.
_should_run_at(now, interval_minutes, last_run) ==
    IF interval_minutes <= 0 THEN FALSE
    ELSE IF last_run = <<>> THEN TRUE
    ELSE (now - last_run[1].ts) >= (interval_minutes * SecondsPerMinute)

SchedInit ==
    /\ sCfg \in [interval_minutes : {0, 1}]
    /\ spc = [p \in Invocations |-> "start"]
    /\ sLock = 0
    /\ sLastRun \in {<<>>, SavedRun(0, 0)}
    /\ sClock = 0
    /\ sRuns = <<>>

\* No invocation.
SchedIdle ==
    /\ sCfg = [interval_minutes |-> 0]
    /\ spc = [p \in Invocations |-> "exited"]
    /\ sLock = 0
    /\ sLastRun = <<>>
    /\ sClock = 0
    /\ sRuns = <<>>

\* The two tests before the lock, of an invocation that is not forced:
\* interval_minutes == 0, and not _should_run(...).
SchedCheckDue(p) ==
    /\ spc[p] = "start"
    /\ spc' = [spc EXCEPT ![p] =
                  IF sCfg.interval_minutes = 0 THEN "exited"
                  ELSE IF ~_should_run_at(sClock, sCfg.interval_minutes, sLastRun)
                  THEN "exited"
                  ELSE "due"]
    /\ UNCHANGED <<sCfg, sLock, sLastRun, sClock, sRuns, notSchedVars>>

\* lock_fd = _acquire_lock(lock_file): O_CREAT | O_EXCL creates the file, or
\* FileExistsError becomes a RuntimeError that leaves the function.
SchedAcquireLock(p) ==
    /\ spc[p] = "due"
    /\ IF sLock = 0
       THEN sLock' = p /\ spc' = [spc EXCEPT ![p] = "locked"]
       ELSE sLock' = sLock /\ spc' = [spc EXCEPT ![p] = "exited"]
    /\ UNCHANGED <<sCfg, sLastRun, sClock, sRuns, notSchedVars>>

\* The body of the try: the sources are crawled and ingested.
SchedIngest(p) ==
    /\ spc[p] = "locked"
    /\ sRuns' = Append(sRuns, [by |-> p, at |-> sClock, last_run |-> sLastRun])
    /\ spc' = [spc EXCEPT ![p] = "ran"]
    /\ UNCHANGED <<sCfg, sLock, sLastRun, sClock, notSchedVars>>

\* The body of the try raises before any source is ingested (the sources
\* file is missing).
SchedRaise(p) ==
    /\ spc[p] = "locked"
    /\ spc' = [spc EXCEPT ![p] = "finally"]
    /\ UNCHANGED <<sCfg, sLock, sLastRun, sClock, sRuns, notSchedVars>>

\* _save_last_run(state_dir, _now())
SchedSaveLastRun(p) ==
    /\ spc[p] = "ran"
    /\ sLastRun' = SavedRun(sClock, p)
    /\ spc' = [spc EXCEPT ![p] = "finally"]
    /\ UNCHANGED <<sCfg, sLock, sClock, sRuns, notSchedVars>>

\* finally: _release_lock(lock_fd, lock_file) unlinks the lock file.
SchedReleaseLock(p) ==
    /\ spc[p] = "finally"
    /\ sLock' = 0
    /\ spc' = [spc EXCEPT ![p] = "exited"]
    /\ UNCHANGED <<sCfg, sLastRun, sClock, sRuns, notSchedVars>>

\* Time passes.
SchedTick ==
    /\ sClock < MaxClock
    /\ sClock' = sClock + TickSeconds
    /\ UNCHANGED <<sCfg, spc, sLock, sLastRun, sRuns, notSchedVars>>

SchedNext ==
    \/ \E p \in Invocations :
          \/ SchedCheckDue(p)
          \/ SchedAcquireLock(p)
          \/ SchedIngest(p)
          \/ SchedRaise(p)
          \/ SchedSaveLastRun(p)
          \/ SchedReleaseLock(p)
    \/ SchedTick

(***************************************************************************)
(*                            SPECIFICATIONS                               *)
(***************************************************************************)

\* The components of the query path and the scheduler are idle.
LateIdle == RerankIdle /\ AssemblyIdle /\ SchedIdle
EarlyIdle ==
    /\ LockIdle /\ EmbedIdle /\ IngestIdle /\ ChunkIdle /\ CrawlIdle
    /\ RetrievalIdle /\ RunIdle

\* Processes contending for the lock file.
InitLock == LockInit /\ EmbedIdle /\ IngestIdle /\ ChunkIdle /\ CrawlIdle /\ RetrievalIdle /\ RunIdle /\ LateIdle
SpecLock == InitLock /\ [][LockNext]_vars

\* One call of batched_embed_many.
InitEmbed == EmbedInit /\ LockIdle /\ IngestIdle /\ ChunkIdle /\ CrawlIdle /\ RetrievalIdle /\ RunIdle /\ LateIdle
SpecEmbed == InitEmbed /\ [][EmbedNext]_vars

\* Successive ingestion runs of one deployment.
InitIngest == IngestInit /\ LockIdle /\ EmbedIdle /\ ChunkIdle /\ CrawlIdle /\ RetrievalIdle /\ RunIdle /\ LateIdle
SpecIngest == InitIngest /\ [][IngestNext]_vars

\* One call of chunk_text.
InitChunk == ChunkInit /\ LockIdle /\ EmbedIdle /\ IngestIdle /\ CrawlIdle /\ RetrievalIdle /\ RunIdle /\ LateIdle
SpecChunk == InitChunk /\ [][ChunkNext]_vars

\* One call of crawl_http_docs.
InitCrawl == CrawlInit /\ LockIdle /\ EmbedIdle /\ IngestIdle /\ ChunkIdle /\ RetrievalIdle /\ RunIdle /\ LateIdle
SpecCrawl == InitCrawl /\ [][CrawlNext]_vars

\* One call of retrieve_evidence.
InitRetrieval ==
    RetrievalInit /\ LockIdle /\ EmbedIdle /\ IngestIdle /\ ChunkIdle /\ CrawlIdle /\ RunIdle /\ LateIdle
SpecRetrieval == InitRetrieval /\ [][RetrievalNext]_vars

\* One process running run_crawl or run_scheduled_crawl.
InitRun ==
    RunInit /\ LockIdle /\ EmbedIdle /\ IngestIdle /\ ChunkIdle /\ CrawlIdle
    /\ RetrievalIdle /\ LateIdle
SpecRun == InitRun /\ [][RunNext]_vars

\* The reranking step of one call of retrieve_evidence.
InitRerank == RerankInit /\ EarlyIdle /\ AssemblyIdle /\ SchedIdle
SpecRerank == InitRerank /\ [][RerankNext]_vars

\* The searches and the evidence assembly of one call of retrieve_evidence.
InitAssembly == AssemblyInit /\ EarlyIdle /\ RerankIdle /\ SchedIdle
SpecAssembly == InitAssembly /\ [][AssemblyNext]_vars

\* Invocations of run_scheduled_crawl on one deployment.
InitSched == SchedInit /\ EarlyIdle /\ RerankIdle /\ AssemblyIdle
SpecSched == InitSched /\ [][SchedNext]_vars

(***************************************************************************)
(*                               CLAIMS                                    *)
(***************************************************************************)

\* The processes between a successful _acquire_lock and their _release_lock.
Holders == {p \in Procs : lpc[p] = "held"}

\* C1: at most one live process at a time holds the lock, in every
\* interleaving of _acquire_lock and _release_lock on the same lock file.
C1_MutualExclusion == Cardinality(Holders) <= 1

\* The batches for which some activation recorded a permanent failure.
FailedBatchIdx == {failed_batches[i].batch_index : i \in 1..Len(failed_batches)}

\* C3: when the service rejects every call of more than 2 texts as too large
\* and succeeds otherwise, batched_embed_many returns, and what it returns is
\* exactly one vector per input text, in input order.
C3_OversizeResilience ==
    eCfg.service = "oversize" =>
        /\ eReturned \/ ENABLED EmbedNext
        /\ eReturned => final_vectors = embed_many(eTexts)

\* C4: whatever the service answers, the call goes on until it has returned
\* (no activation blocks forever), and each top-level batch then has vectors
\* or a recorded permanent failure.
C4_BatcherTerminates ==
    /\ eReturned \/ ENABLED EmbedNext
    /\ eReturned => \A b \in BatchIdx : ordered_results(b).ok \/ b \in FailedBatchIdx

\* C5: the returned list is the concatenation, in ascending batch index, of
\* the vectors of exactly the top-level batches in which nothing failed
\* permanently, each batch's vectors in the order of its texts.
C5_OrderGuarantee ==
    eReturned =>
        final_vectors = BatcherOutput(eTexts, eCfg.batch_size, FailedBatchIdx)

\* C5 witness: a call has returned in which one batch failed permanently,
\* another was split and recombined from two non-empty halves, and a third
\* part of the output follows it.
C5_Witness ==
    /\ eReturned
    /\ FailedBatchIdx # {}
    /\ \E b \in BatchIdx :
          /\ RightOf(Root(b)) \in DOMAIN frames
          /\ ordered_results(b).ok
          /\ Len(frames[LeftOf(Root(b))].batch_texts) > 0
    /\ Len(final_vectors) >= 2
    /\ Len(final_vectors) < Len(eTexts)

\* A completed run that was no dry run.
Ingested(call) == call.outcome = "returned" /\ ~call.dry_run

\* The run before the last ingested, and the last ingested the same documents.
ReIngested == Ingested(prev) /\ Ingested(last) /\ last.docs = prev.docs

WroteEveryChunk(call) ==
    call.result.updated + call.result.skipped = call.result.chunks

C6_Remediation ==
    (/\ prev.outcome = "bm25_error"
     /\ Ingested(last)
     /\ last.docs = prev.docs
     /\ last.failed_embed = {}) =>
        prev.gap \subseteq (DOMAIN qdrant \cap DOMAIN bm25)

\* The write requests of a call come in pairs, the vector store first, the
\* keyword index second, with the same chunk ids.
PairedWrites(writes) ==
    /\ Len(writes) % 2 = 0
    /\ \A i \in 1..(Len(writes) \div 2) :
          /\ writes[2 * i - 1].store = "qdrant"
          /\ writes[2 * i].store = "bm25"
          /\ writes[2 * i].ids = writes[2 * i - 1].ids

\* C7: a call that starts with the same chunk ids in both stores and returns
\* normally, embedding failures or not, leaves the same chunk ids in both
\* stores; each write batch goes to the vector store first and the keyword
\* index second, with the same chunk ids.
C7_StoreConsistency ==
    (last.outcome = "returned" /\ DOMAIN last.qdrant_before = DOMAIN last.bm25_before) =>
        /\ DOMAIN qdrant = DOMAIN bm25
        /\ PairedWrites(last.writes)

\* C7 witness: a call lost an embedding batch, still wrote a chunk to both
\* stores, and returned.
C7_Witness ==
    /\ last.outcome = "returned"
    /\ DOMAIN last.qdrant_before = DOMAIN last.bm25_before
    /\ last.failed_embed # {}
    /\ last.writes # <<>>
    /\ last.result.points = 1
    /\ DOMAIN qdrant # DOMAIN last.qdrant_before

\* The chunk count of the last call's documents.
ChunkCount == Len(AllChunks(last.docs, iCfg))

\* C8: a dry run makes no lookup, no embedding call and no write and leaves
\* both stores as they were; with parameters chunk_text accepts it returns
\* the document count and the chunk count, points, skipped and updated 0.
C8_DryRun ==
    (last.outcome # "none" /\ last.dry_run) =>
        /\ last.lookups = 0 /\ last.embed_calls = 0 /\ last.writes = <<>>
        /\ qdrant = last.qdrant_before /\ bm25 = last.bm25_before
        /\ (iCfg.max_chars > 0 /\ iCfg.overlap_chars >= 0
                /\ iCfg.overlap_chars < iCfg.max_chars) =>
              /\ last.outcome = "returned"
              /\ last.result = [documents |-> Len(last.docs), chunks |-> ChunkCount,
                                points |-> 0, skipped |-> 0, updated |-> 0]

\* C8 witness: a dry run of a document of two chunks, in incremental mode,
\* on stores that hold chunks.
C8_Witness ==
    /\ last.dry_run /\ last.outcome = "returned"
    /\ last.result.chunks = 2
    /\ iCfg.incremental
    /\ qdrant # EmptyStore

\* C9: a call with at least one document and max_chars <= 0,
\* overlap_chars < 0 or overlap_chars >= max_chars raises the validation
\* error before any lookup, embedding call or write; the stores stay as
\* they were.
C9_ValidationFailFast ==
    (/\ last.outcome # "none"
     /\ last.docs # <<>>
     /\ (iCfg.max_chars <= 0 \/ iCfg.overlap_chars < 0
            \/ iCfg.overlap_chars >= iCfg.max_chars)) =>
        /\ last.outcome = "ValueError"
        /\ last.lookups = 0 /\ last.embed_calls = 0 /\ last.writes = <<>>
        /\ qdrant = last.qdrant_before /\ bm25 = last.bm25_before

\* C9 witness: a call with a document and overlap_chars == max_chars, no dry
\* run, on stores that hold chunks, raised the validation error.
C9_Witness ==
    /\ last.outcome = "ValueError"
    /\ last.docs # <<>> /\ ~last.dry_run
    /\ iCfg.max_chars > 0 /\ iCfg.overlap_chars = iCfg.max_chars
    /\ qdrant # EmptyStore

\* The positions at which two chunk lists of one length differ in their text.
Mutated(before, after) == {i \in 1..Len(after) : after[i].text # before[i].text}

\* The last run's document is the one of the run before with the text of
\* exactly one chunk changed, the chunk boundaries as they were.
MutatedOneChunk(before, after) ==
    /\ Len(prev.docs) = 1 /\ Len(last.docs) = 1
    /\ last.docs[1].url_or_path = prev.docs[1].url_or_path
    /\ last.docs[1].title = prev.docs[1].title
    /\ Len(after) = Len(before)
    /\ Cardinality(Mutated(before, after)) = 1

\* The changed position has a new chunk_id and is the one chunk written;
\* every other position keeps its chunk_id and is skipped.
OnlyMutatedRewritten(before, after) ==
    /\ \A i \in 1..Len(after) :
          (after[i].chunk_id # before[i].chunk_id) <=> (i \in Mutated(before, after))
    /\ last.result.updated = 1
    /\ last.result.skipped = last.result.chunks - 1

MutatedNotStored(before, after) ==
    \A i \in Mutated(before, after) :
        \A id \in DOMAIN last.qdrant_before :
            \/ last.qdrant_before[id].payload.doc_id # after[i].doc_id
            \/ last.qdrant_before[id].payload.text # after[i].text

ParagraphsOf(t) == StrippedNonEmpty(Split(t, <<"\n", "\n">>))

\* c is one sentence of a paragraph of t, and no sentence end lies inside it.
IsOneSentence(c, paragraphs) ==
    /\ \E p \in 1..Len(paragraphs) :
          \E j \in 1..Len(Sentences(paragraphs[p])) : Sentences(paragraphs[p])[j] = c
    /\ \A i \in 1..(Len(c) - 1) : ~(c[i] = "." /\ c[i + 1] = " ")

Solid(s) == KeepIndices(s, {i \in 1..Len(s) : s[i] \notin Whitespace})

\* C12: for a non-empty text and accepted parameters chunk_text returns at
\* least one chunk, and the chunks in order hold every non-whitespace
\* character of the normalized text, in order, none left out.
C12_NeverDropsContent ==
    (ctOut.state = "returned" /\ ctArgs.text # <<>>) =>
        /\ ctOut.chunks # <<>>
        /\ Solid(Concat(ctOut.chunks)) = Solid(normalize_whitespace(ctArgs.text))

(***************************************************************************)
(* C13: Crawler page bound.  One run of crawl_http_docs issues at most     *)
(* max_pages page fetch requests, whatever the fetches' outcomes.          *)
(* It does not hold: the loop counts the pages stored, not the requests.   *)
(***************************************************************************)
C13_PageBound == Len(fetches) <= max_pages(crCfg)

\* The depth bound the crawl spec asks for: its max_depth when it sets one,
\* 0 included, and the configured default otherwise.
RequestedMaxDepth(cfg) ==
    IF cfg.spec_max_depth # <<>> THEN cfg.spec_max_depth[1] ELSE cfg.max_depth

(***************************************************************************)
(* C14: Crawler depth bound.  Every fetched URL was enqueued at a depth    *)
(* <= max_depth, the spec's max_depth when it sets one (0 included) and    *)
(* the default otherwise.  It does not hold: a spec's max_depth of 0 is    *)
(* replaced by the default.                                                *)
(***************************************************************************)
C14_DepthBound ==
    \A i \in 1..Len(fetches) : fetches[i].depth <= RequestedMaxDepth(crCfg)

\* The filter as the crawl spec states it.
Allowed(url, cfg) ==
    /\ url.scheme \in {"http", "https"}
    /\ url.netloc \in cfg.allowed_domains
    /\ (cfg.allowed_url_prefixes # <<>> =>
           \E i \in 1..Len(cfg.allowed_url_prefixes) :
               StartsWith(url, cfg.allowed_url_prefixes[i]))
    /\ \A i \in 1..Len(cfg.exclude_url_patterns) :
           ~Search(cfg.exclude_url_patterns[i], url)

(***************************************************************************)
(* C16: Crawl URL filter.  No fetch is issued for a URL whose scheme is    *)
(* not http/https, whose host is not in allowed_domains, which fails the   *)
(* prefix check, or which matches an exclude pattern.  It does not hold:   *)
(* a URL without a host passes the domain check.                           *)
(***************************************************************************)
C16_UrlFilter ==
    \A i \in 1..Len(fetches) : Allowed(fetches[i].url, crCfg)

\* seq without the URLs in gone.
Drop(seq, gone) ==
    LET Kept(u) == u \notin gone IN SelectSeq(seq, Kept)

\* The site in which the URLs in gone are linked from nowhere, and nothing
\* fails.
WithoutUrls(env, gone) ==
    [links |-> [u \in DOMAIN env.links \ gone |-> Drop(env.links[u], gone)],
     thin |-> env.thin, failing |-> {}]

\* The whole while loop, from st.
RECURSIVE CrawlFrom(_, _, _)
CrawlFrom(st, cfg, env) ==
    IF LoopCondition(st, cfg) THEN CrawlFrom(Iteration(st, cfg, env), cfg, env) ELSE st

\* What one call returns.
crawl_http_docs(cfg, env) ==
    DocumentsOf(CrawlFrom(CrawlStart(cfg), cfg, env).fetched_content)

HasDocument(url) == \E i \in 1..Len(documents) : documents[i].url_or_path = url

NoDocumentOfFailed ==
    \A i \in 1..Len(documents) : documents[i].url_or_path \notin crEnv.failing

Advances(st, next) ==
    \/ Len(next.fetches) > Len(st.fetches)
    \/ next.fetches = st.fetches /\ Len(next.queue) < Len(st.queue)

InFlight == {f \in DOMAIN frames : frames[f].pc = "call"}

\* The activations that keep their permit while they await a half.
AwaitingHalf == {f \in DOMAIN frames : frames[f].pc \in {"left", "right"}}

(***************************************************************************)
(* C17: Batcher bounded concurrency.  At every moment of                   *)
(* batched_embed_many at most max_concurrent embedding-service calls are   *)
(* in flight, splits and retries included: every call in flight holds one  *)
(* of the max_concurrent permits.                                          *)
(***************************************************************************)
C17_BoundedConcurrency ==
    /\ Cardinality(InFlight) <= eCfg.max_concurrent
    /\ sem >= 0
    /\ ~eReturned =>
           Cardinality(InFlight) + Cardinality(AwaitingHalf) + sem = eCfg.max_concurrent

\* Every permit is taken while one batch is being split, the call for its
\* half is a retry, and another batch waits at the gate.
C17_Witness ==
    /\ sem = 0
    /\ \E f \in InFlight : f[2] > 1 /\ frames[f].attempt > 0
    /\ AwaitingHalf # {}
    /\ \E f \in DOMAIN frames : frames[f].pc = "wait"

Appears(lst, id) == \E i \in 1..Len(lst) : lst[i] = id

\* The 1-based rank of id in lst.
RankOf(lst, id) == CHOOSE i \in 1..Len(lst) : lst[i] = id

\* The sum, over the lists in which id appears, of 1/(k + rank).
ReciprocalRankSum(ranked_lists, id, k) ==
    LET Term(lst) ==
            IF Appears(lst, id) THEN Frac(1, k + RankOf(lst, id)) ELSE Frac(0, 1)
        S[i \in 0..Len(ranked_lists)] ==
            IF i = 0 THEN Frac(0, 1) ELSE FracSum(S[i - 1], Term(ranked_lists[i]))
    IN S[Len(ranked_lists)]

Scored(id) == \E i \in 1..Len(fused) : fused[i].id = id
ScoreOf(id) == fused[CHOOSE i \in 1..Len(fused) : fused[i].id = id].score

(***************************************************************************)
(* C18: Fusion correctness.  rrf_fuse gives every id the sum, over the     *)
(* ranked lists in which it appears, of 1/(k + rank) with 1-based rank,    *)
(* and no score to the ids of no list; for keyword ranks [A,B,C], vector   *)
(* ranks [B,A,D] and k = 60, score(A) = 1/61 + 1/62 and A and B score      *)
(* strictly higher than C and D.                                           *)
(***************************************************************************)
C18_FusionCorrectness ==
    rtpc # "start" =>
        /\ \A id \in ChunkIds :
               Scored(id) <=> (Appears(rtArgs.bm25_rank, id) \/ Appears(rtArgs.vec_rank, id))
        /\ \A i, j \in 1..Len(fused) : i # j => fused[i].id # fused[j].id
        /\ \A i \in 1..Len(fused) :
               FracEq(fused[i].score,
                      ReciprocalRankSum(<<rtArgs.bm25_rank, rtArgs.vec_rank>>,
                                        fused[i].id, rtArgs.rrf_k))
        /\ (/\ rtArgs.bm25_rank = <<"A", "B", "C">>
            /\ rtArgs.vec_rank = <<"B", "A", "D">>
            /\ rtArgs.rrf_k = 60) =>
               /\ FracEq(ScoreOf("A"), FracSum(Frac(1, 61), Frac(1, 62)))
               /\ \A hi \in {"A", "B"} : \A lo \in {"C", "D"} :
                      FracLess(ScoreOf(lo), ScoreOf(hi))

\* The lists of the example have been fused.
C18_Witness ==
    /\ rtpc # "start"
    /\ rtArgs.bm25_rank = <<"A", "B", "C">>
    /\ rtArgs.vec_rank = <<"B", "A", "D">>
    /\ rtArgs.rrf_k = 60
    /\ Len(fused) = 4

\* The items of the answer that name one of the candidates.
UsableItems ==
    {i \in 1..Len(rerank_json) :
        0 <= rerank_json[i].index /\ rerank_json[i].index < Len(cand_chunks)}

\* The candidates the answer gives a relevance to, and that relevance.
Listed == {cand_chunks[rerank_json[i].index + 1] : i \in UsableItems}
Relevance(c) ==
    Frac(rerank_json[CHOOSE i \in UsableItems :
                        cand_chunks[rerank_json[i].index + 1] = c].relevance_score, 1)

\* ev is the best top_k of pool by score (a function on pool), best first,
\* each once.
IsTopByScore(ev, pool, top_k, score) ==
    /\ Len(ev) = Min(top_k, Cardinality(pool))
    /\ \A p \in 1..Len(ev) : ev[p] \in pool
    /\ \A p, q \in 1..Len(ev) : p # q => ev[p] # ev[q]
    /\ \A p, q \in 1..Len(ev) : p < q => ~FracLess(score[ev[p]], score[ev[q]])
    /\ \A c \in pool :
           (\A p \in 1..Len(ev) : ev[p] # c) =>
               \A p \in 1..Len(ev) : ~FracLess(score[ev[p]], score[c])

FusedScore(c) == c.score
Candidates == {cand_chunks[i] : i \in 1..Len(cand_chunks)}

CandIndex(c) == CHOOSE i \in 1..Len(cand_chunks) : cand_chunks[i] = c

\* The score the evidence is ordered by.
OrderingScore(c) == IF UsableItems = {} THEN FusedScore(c) ELSE Relevance(c)

(***************************************************************************)
(* C20: Retrieval tie-break.  Two candidates of equal score (fused in the  *)
(* fallback path, relevance in the reranked path) come in the evidence in  *)
(* the order of the candidate assembly, whatever order the reranking       *)
(* service lists its results in.  It does not hold in the reranked path.   *)
(***************************************************************************)
C20_TieBreak ==
    rtpc = "done" =>
        \A p, q \in 1..Len(evidence) :
            (p < q /\ FracEq(OrderingScore(evidence[p]), OrderingScore(evidence[q]))) =>
                CandIndex(evidence[p]) < CandIndex(evidence[q])

(***************************************************************************)
(* C21: Lock release on exit.  Whenever a run that acquired the lock has   *)
(* exited, on any exit path (normal completion, early return, exception,   *)
(* graceful shutdown after a first signal, forced shutdown after a         *)
(* second), the lock file has been removed.  It does not hold for the      *)
(* forced shutdown, nor for a SIGTERM to the scheduled run.                *)
(***************************************************************************)
C21_LockReleasedOnExit ==
    (rpc = "exited" /\ rAcquired) => rLockFile = "absent"

\* The run tried to take the lock: it got it, or _acquire_lock raised.
LockRefused == rOutcome.reason = "Lock already held"
TriedLock == rAcquired \/ LockRefused

\* The lock file the run found belongs to a live process.
FoundLiveOwner == rCfg.lock_file \in {"live", "live_foreign"}

\* The lock file the run found belongs to a process that is gone.
FoundStaleLock == rCfg.lock_file \in {"stale", "empty"}

(***************************************************************************)
(* C22: Lock contention is not an error.  A run that finds the lock held   *)
(* by a live owner crawls nothing, calls no embedding and writes nothing,  *)
(* and ends by reporting ran = false with a reason, not with an error or   *)
(* an uncaught exception.  It does not hold: the RuntimeError of           *)
(* _acquire_lock leaves the run function in both programs.                 *)
(***************************************************************************)
C22_ContentionNotAnError ==
    (FoundLiveOwner /\ TriedLock) =>
        /\ rStarted = <<>>
        /\ rWrites = {}
        /\ ~rProbed
        /\ rpc = "exited" =>
              /\ rOutcome.how = "returned"
              /\ ~rOutcome.ran
              /\ rOutcome.reason # ""

(***************************************************************************)
(* C23: Stale lock reclaim.  A run that tries to acquire the lock and      *)
(* finds a lock file whose owner is gone, with no other process            *)
(* contending, acquires it: the file then holds the run's own pid and the  *)
(* run proceeds.  It does not hold for run_scheduled_crawl.                *)
(***************************************************************************)
C23_StaleLockReclaim ==
    (FoundStaleLock /\ TriedLock) =>
        /\ rAcquired
        /\ rpc \notin {"finally", "exited"} => rLockFile = "own"

\* The claim's due condition, on the settings and the timestamp the run
\* found.
IsDue ==
    /\ rCfg.interval_minutes > 0
    /\ \/ rCfg.last_run = <<>>
       \/ Now - rCfg.last_run[1] >= rCfg.interval_minutes * SecondsPerMinute

\* The run returned from the due decision without going on.
Declined == rOutcome.reason \in {"disabled (interval_minutes=0)", "not due yet"}

\* The run has worked: a crawl, an embedding call or a store write.
HasWorked == rStarted # <<>> \/ rWrites # {} \/ rProbed

(***************************************************************************)
(* C24: Scheduler due decision.  A non-forced run_scheduled_crawl goes on  *)
(* to the lock iff interval_minutes > 0 and no last-run timestamp is       *)
(* persisted or at least interval_minutes * 60 seconds have passed since   *)
(* it; otherwise it returns ran = false with no lock taken and no work     *)
(* done.  A forced run skips the decision but works only with the lock.    *)
(***************************************************************************)
C24_DueDecision ==
    rCfg.program = "scheduled" =>
        /\ (rpc = "acquire" \/ TriedLock) => (rCfg.force \/ IsDue)
        /\ Declined =>
              /\ ~rCfg.force /\ ~IsDue
              /\ rpc = "exited" /\ rOutcome.how = "returned" /\ ~rOutcome.ran
              /\ ~TriedLock /\ ~HasWorked /\ rLockFile = rCfg.lock_file
        /\ (rpc = "exited" /\ rSignals = 0 /\ ~rCfg.force /\ ~IsDue) => Declined
        /\ HasWorked => rAcquired

\* A non-forced run found a timestamp exactly one interval old, took the
\* lock and ingested a source.
C24_Witness ==
    /\ rCfg.program = "scheduled"
    /\ ~rCfg.force
    /\ rCfg.last_run = <<Now - rCfg.interval_minutes * SecondsPerMinute>>
    /\ rOutcome.how = "returned" /\ rOutcome.ran
    /\ rWrites # {}
    /\ rpc = "exited"

\* The sources the loop is done with, and those among them that raise.
Processed == 1..(rIdx - 1)
Failing(i) == rCfg.sources[i] \in {"crawl_raises", "ingest_raises"}
Completed == {i \in Processed : ~Failing(i)}

RECURSIVE SumCounts(_, _)
SumCounts(S, key) ==
    IF S = {} THEN 0
    ELSE LET i == CHOOSE x \in S : TRUE
         IN SourceCounts(rCfg.sources[i], i)[key] + SumCounts(S \ {i}, key)

RecordedIn(list, field, i) == \E j \in 1..Len(list) : list[j][field] = i

\* run_crawl returned from after its loop.
ReturnedFromLoop == rpc \in {"finally", "exited"} /\ rOutcome.how = "returned"

(***************************************************************************)
(* C25: Per-source failure isolation.  In run_crawl an exception while     *)
(* crawling or ingesting one source is recorded in errors and per_source,  *)
(* every later source is still processed, the run returns ran = true, and  *)
(* each aggregate total is the sum of that count over the sources that     *)
(* completed without error.                                                *)
(***************************************************************************)
C25_FailureIsolation ==
    (rCfg.program = "cli" /\ rAcquired) =>
        /\ \A i \in Processed :
              Failing(i) => /\ RecordedIn(errors, "source", i)
                            /\ RecordedIn(per_source, "name", i)
        /\ Len(errors) = Cardinality(Processed \ Completed)
        /\ totals.sources = Cardinality(Completed)
        /\ \A key \in {"documents", "chunks", "points", "skipped", "updated"} :
              totals[key] = SumCounts(Completed, key)
        /\ rOutcome.how \in {"none", "returned", "killed"}
              \/ rOutcome.reason = "setup failed"
        /\ ReturnedFromLoop =>
              /\ rOutcome.ran
              /\ ~_SHUTDOWN_REQUESTED => Processed = 1..Len(rCfg.sources)

\* The first source raised, the second was ingested, and the run returned.
C25_Witness ==
    /\ rCfg.program = "cli"
    /\ rpc = "exited"
    /\ Len(rCfg.sources) = 2
    /\ Failing(1) /\ rCfg.sources[2] = "ok"
    /\ Len(errors) = 1
    /\ totals.sources = 1 /\ totals.documents = 2
    /\ rOutcome.ran

\* The sources started, as a set.
StartedSources == {rStarted[j].source : j \in 1..Len(rStarted)}

(***************************************************************************)
(* C26: Cooperative cancellation.  In run_crawl no source is started once  *)
(* a first shutdown request has been received; the source in progress      *)
(* runs to completion with all its write batches, the result covering the  *)
(* sources started is returned and the lock is released; only a second     *)
(* request ends the process at once.                                       *)
(***************************************************************************)
C26_CooperativeCancellation ==
    rCfg.program = "cli" =>
        /\ \A j \in 1..Len(rStarted) : ~rStarted[j].after_request
        /\ rOutcome.how = "killed" => rSignals >= 2
        /\ (_SHUTDOWN_REQUESTED /\ rSignals = 1 /\ rAcquired /\ rpc = "exited"
            /\ rOutcome.reason # "setup failed") =>
              /\ rOutcome.how = "returned" /\ rOutcome.ran
              /\ rLockFile = "absent"
              /\ \A i \in StartedSources :
                    /\ RecordedIn(per_source, "name", i)
                    /\ rCfg.sources[i] = "ok" =>
                          \A b \in 1..NumWriteBatches : <<i, b>> \in rWrites

\* One request came while the first of two sources was being ingested: the
\* source was completed, the second never started, the run returned.
C26_Witness ==
    /\ rCfg.program = "cli"
    /\ rCfg.sources = <<"ok", "ok">>
    /\ _SHUTDOWN_REQUESTED /\ rSignals = 1
    /\ StartedSources = {1}
    /\ \A b \in 1..NumWriteBatches : <<1, b>> \in rWrites
    /\ totals.sources = 1
    /\ rpc = "exited" /\ rOutcome.ran /\ rLockFile = "absent"

\* The number of records the last call upserted into a store.
UpsertedInto(store) ==
    LET F[k \in 0..Len(last.writes)] ==
            IF k = 0 THEN 0
            ELSE F[k - 1] + (IF last.writes[k].store = store
                             THEN Len(last.writes[k].ids) ELSE 0)
    IN F[Len(last.writes)]

\* What the claim says of every result but the equality.
CountsAgree ==
    /\ last.result.updated = last.result.points
    /\ last.result.points = UpsertedInto("qdrant")
    /\ last.result.points = UpsertedInto("bm25")
    /\ last.result.chunks = Len(AllChunks(last.docs, iCfg))
    /\ last.result.skipped + last.result.updated <= last.result.chunks

AllAccounted ==
    last.result.skipped + last.result.updated = last.result.chunks

\* C27 as stated: in every result of ingest_documents updated == points ==
\* the records upserted into the vector store == the records upserted into
\* the keyword index, chunks is the number of chunks of the documents, and
\* skipped + updated <= chunks, with equality whenever no embedding batch
\* failed permanently.  The equality fails in a dry run.
C27_IngestCountsOfEveryResult ==
    last.outcome = "returned" =>
        /\ CountsAgree
        /\ last.failed_embed = {} => AllAccounted

(***************************************************************************)
(* C27: Ingest counts.  In every result of ingest_documents updated ==     *)
(* points == the records upserted into each store during the call, chunks  *)
(* is the number of chunks of the input documents and skipped + updated    *)
(* <= chunks; the two sides are equal when the call is not a dry run and   *)
(* no embedding batch failed permanently.                                  *)
(***************************************************************************)
C27_IngestCounts ==
    last.outcome = "returned" =>
        /\ CountsAgree
        /\ (last.failed_embed = {} /\ ~last.dry_run) => AllAccounted

\* An incremental call with no failure skipped a stored chunk and wrote the
\* other one: skipped + updated = chunks = 2.
C27_Witness ==
    /\ last.outcome = "returned" /\ ~last.dry_run
    /\ last.failed_embed = {}
    /\ last.result.skipped = 1
    /\ last.result.updated = 1
    /\ last.result.chunks = 2
    /\ UpsertedInto("qdrant") = 1

\* A call lost an embedding batch and reports fewer chunks than it has.
C27_WitnessLoss ==
    /\ last.outcome = "returned" /\ ~last.dry_run
    /\ last.failed_embed # {}
    /\ last.result.updated = 1
    /\ last.result.skipped + last.result.updated < last.result.chunks

\* A set as a list, one element each.
RECURSIVE SeqOfSet(_)
SeqOfSet(S) ==
    IF S = {} THEN <<>>
    ELSE LET x == CHOOSE y \in S : TRUE IN <<x>> \o SeqOfSet(S \ {x})

\* The records of a store after the upserts of ids, one after the other.
RECURSIVE UpsertAll(_, _)
UpsertAll(records, ids) ==
    IF ids = <<>> THEN records
    ELSE UpsertAll(DeleteThenAdd(records, Head(ids)), Tail(ids))

\* The records of a store after the writes a call made to it.
RECURSIVE ReplayWrites(_, _, _)
ReplayWrites(records, writes, store) ==
    IF writes = <<>> THEN records
    ELSE ReplayWrites(IF Head(writes).store = store
                      THEN UpsertAll(records, Head(writes).ids) ELSE records,
                      Tail(writes), store)

\* The records of a store now: what the first call found, one record per
\* id, and then every write of the calls made.
StoreRecords(store, first_found) ==
    ReplayWrites(ReplayWrites(SeqOfSet(DOMAIN first_found), prev.writes, store),
                 last.writes, store)

QdrantRecords ==
    StoreRecords("qdrant", IF prev.outcome # "none" THEN prev.qdrant_before
                           ELSE IF last.outcome # "none" THEN last.qdrant_before
                           ELSE qdrant)

Bm25Records ==
    StoreRecords("bm25", IF prev.outcome # "none" THEN prev.bm25_before
                         ELSE IF last.outcome # "none" THEN last.bm25_before
                         ELSE bm25)

NoDuplicates(records) ==
    \A i, j \in 1..Len(records) : records[i] = records[j] => i = j

Elements(records) == {records[i] : i \in 1..Len(records)}

\* The chunk ids document_to_chunks gives the documents of a call.
ChunkIdsOf(call) == Elements(IdsOf(AllChunks(call.docs, iCfg), "chunk_id"))

\* The ids a call wrote.
WrittenIds(call) ==
    UNION {Elements(call.writes[k].ids) : k \in 1..Len(call.writes)}

\* Each store holds one record per chunk id, and the calls write only ids
\* of their documents' chunks.
OneRecordPerChunkId ==
    /\ NoDuplicates(QdrantRecords) /\ Elements(QdrantRecords) = DOMAIN qdrant
    /\ NoDuplicates(Bm25Records) /\ Elements(Bm25Records) = DOMAIN bm25
    /\ last.outcome \notin {"none", "ValueError"} =>
          WrittenIds(last) \subseteq ChunkIdsOf(last)

StoreIdsUnchanged ==
    /\ DOMAIN qdrant = DOMAIN last.qdrant_before
    /\ DOMAIN bm25 = DOMAIN last.bm25_before

SplitFrames == {f \in DOMAIN frames : LeftOf(f) \in DOMAIN frames}

(***************************************************************************)
(* C29: Split condition.  A batch is split on a payload-too-large failure  *)
(* only when it holds more than min_batch_size texts, the two halves       *)
(* concatenated are the batch, the embedding service is never called with  *)
(* an empty list, and no other failure causes a split.  It does not hold:  *)
(* the test is on the nominal batch size, not on the texts held.           *)
(***************************************************************************)
C29_SplitCondition ==
    \A f \in DOMAIN frames :
        /\ f \in SplitFrames => Len(frames[f].batch_texts) > min_batch_size
        /\ frames[f].pc = "call" => frames[f].batch_texts # <<>>
        /\ RightOf(f) \in DOMAIN frames =>
              frames[LeftOf(f)].batch_texts \o frames[RightOf(f)].batch_texts
                  = frames[f].batch_texts
        /\ (f \in SplitFrames /\ eCfg.service = "oversize") =>
              "413" \in ServiceOutcomes(frames[f].batch_texts)

\* The halves of a split are the batch, and only a 413 splits.
C29_HalvesAreTheBatch ==
    \A f \in DOMAIN frames :
        /\ RightOf(f) \in DOMAIN frames =>
              frames[LeftOf(f)].batch_texts \o frames[RightOf(f)].batch_texts
                  = frames[f].batch_texts
        /\ (f \in SplitFrames /\ eCfg.service = "oversize") =>
              "413" \in ServiceOutcomes(frames[f].batch_texts)

(***************************************************************************)
(* C30: Failure recording.  When batched_embed_many has returned, every    *)
(* top-level batch whose texts are absent from the output has a failure    *)
(* record carrying its index, and a batch with no failure record           *)
(* contributes exactly one vector per text.                                *)
(***************************************************************************)
C30_FailureRecording ==
    eReturned =>
        \A b \in BatchIdx :
            /\ ~ordered_results(b).ok => b \in FailedBatchIdx
            /\ b \notin FailedBatchIdx =>
                  /\ ordered_results(b).ok
                  /\ ordered_results(b).vecs = embed_many(BatchTexts(b))

\* A call returned in which a half of the second batch failed for good, so
\* the batch is absent and recorded, and the first batch was split and
\* contributes its vectors with no record.
C30_Witness ==
    /\ eReturned
    /\ total_batches = 2
    /\ ~ordered_results(1).ok
    /\ Root(1) \in SplitFrames
    /\ FailedBatchIdx = {1}
    /\ Root(0) \in SplitFrames
    /\ ordered_results(0).ok
    /\ Len(final_vectors) = Len(BatchTexts(0))

(***************************************************************************)
(* C34: Vector-chunk alignment.  Every record ingest_documents writes to   *)
(* the vector store pairs a chunk's id and payload with the vector the     *)
(* embedding service computed from that chunk's text, in every write       *)
(* batch, also when embedding batches of it failed permanently.  It does   *)
(* not hold: zip pairs the chunks with the vectors that are left.          *)
(***************************************************************************)
C34_VectorChunkAlignment ==
    \A id \in DOMAIN qdrant :
        qdrant[id].vector = Vec(qdrant[id].payload.text)

\* The records of the chunk ids a store held before a call are all there
\* after it.
KeptAll(before, after) == DOMAIN before \subseteq DOMAIN after

(***************************************************************************)
(* C38: Stores only grow.  No ingest_documents call removes a chunk id     *)
(* from the vector store or from the keyword index, over any sequence of   *)
(* calls; after a chunk's content changed and its document was ingested    *)
(* again, the record of the superseded chunk_id is still in both stores,   *)
(* with the old text, next to the new one.                                 *)
(***************************************************************************)
C38_StoresOnlyGrow ==
    /\ last.outcome # "none" =>
          /\ KeptAll(last.qdrant_before, qdrant)
          /\ KeptAll(last.bm25_before, bm25)
    /\ prev.outcome # "none" =>
          /\ KeptAll(prev.qdrant_before, last.qdrant_before)
          /\ KeptAll(prev.bm25_before, last.bm25_before)
    /\ (Ingested(prev) /\ Ingested(last)
        /\ MutatedOneChunk(AllChunks(prev.docs, iCfg), AllChunks(last.docs, iCfg))) =>
          \A i \in Mutated(AllChunks(prev.docs, iCfg), AllChunks(last.docs, iCfg)) :
              LET old == AllChunks(prev.docs, iCfg)[i]
              IN old.chunk_id \in DOMAIN last.qdrant_before =>
                    /\ old.chunk_id \in DOMAIN qdrant
                    /\ old.chunk_id \in DOMAIN bm25
                    /\ qdrant[old.chunk_id].payload.chunk_hash = old.chunk_hash

\* One chunk of a stored document changed, the document was ingested again:
\* both stores hold the superseded chunk id and the new one.
C38_Witness ==
    /\ Ingested(prev) /\ Ingested(last)
    /\ prev.failed_embed = {} /\ last.failed_embed = {}
    /\ MutatedOneChunk(AllChunks(prev.docs, iCfg), AllChunks(last.docs, iCfg))
    /\ \A i \in Mutated(AllChunks(prev.docs, iCfg), AllChunks(last.docs, iCfg)) :
          /\ AllChunks(prev.docs, iCfg)[i].chunk_id \in DOMAIN qdrant \cap DOMAIN bm25
          /\ AllChunks(last.docs, iCfg)[i].chunk_id \in DOMAIN qdrant \cap DOMAIN bm25
          /\ AllChunks(last.docs, iCfg)[i].chunk_id \notin DOMAIN last.qdrant_before

\* C36: within one run of crawl_http_docs no URL is handed to the fetcher
\* more than once.
C36_NoRepeatedFetch ==
    \A i, j \in 1..Len(fetches) : fetches[i].url = fetches[j].url => i = j

\* The URLs that pass the skip filter and are reachable from a start URL
\* through kept pages within d links.
ReachableWithin(d) ==
    LET Passes(u) == ~should_skip_url(u, crCfg.allowed_domains,
                                      crCfg.allowed_url_prefixes,
                                      crCfg.exclude_url_patterns)
        LinksOf(u) == IF u \in DOMAIN crEnv.links
                      THEN {crEnv.links[u][i] : i \in 1..Len(crEnv.links[u])}
                      ELSE {}
        R[k \in 0..d] ==
            IF k = 0
            THEN {u \in {crCfg.start_urls[i] : i \in 1..Len(crCfg.start_urls)} : Passes(u)}
            ELSE R[k - 1] \cup {v \in UNION {LinksOf(u) : u \in {w \in R[k - 1] : HasDocument(w)}} :
                                   Passes(v)}
    IN R[d]

\* C37: a crawl that ends having kept fewer than max_pages documents has
\* kept every URL that passes the skip filter, is reachable from a start
\* URL through kept pages within max_depth links and whose fetch gives 200
\* characters of text or more.
C37_CrawlCompleteness ==
    (crpc = "done" /\ crCfg.start_urls # <<>> /\ Len(documents) < max_pages(crCfg)) =>
        \A u \in ReachableWithin(RequestedMaxDepth(crCfg)) :
            Stored(u, crEnv) => HasDocument(u)

\* The activations that were not split: their batch is the one retried.
Unsplit == {f \in DOMAIN frames : LeftOf(f) \notin DOMAIN frames}

\* C31: an activation that is not split calls the embedding service at most
\* max_retries + 1 times; its failed attempt j < max_retries is followed by
\* a wait of retry_delay * backoff^j before attempt j + 1, nothing is waited
\* after the final attempt, and after the final failed attempt the batch is
\* in failed_batches.
C31_RetryBoundAndBackoff ==
    \A f \in Unsplit :
        LET fr == frames[f]
        IN /\ fr.calls <= eCfg.max_retries + 1
           /\ fr.waits = [j \in 1..Len(fr.waits) |-> retry_delay * Pow(backoff, j - 1)]
           /\ fr.pc = "call" => Len(fr.waits) = fr.calls
           /\ fr.pc = "done" => Len(fr.waits) = fr.calls - 1
           /\ (fr.pc = "done" /\ ~fr.result.ok) =>
                 /\ fr.calls = eCfg.max_retries + 1
                 /\ \E i \in 1..Len(failed_batches) : failed_batches[i] = failure_record(f)

\* An activation has failed for good after three calls and the waits 1, 2.
C31_Witness ==
    \E f \in Unsplit :
        /\ frames[f].pc = "done"
        /\ ~frames[f].result.ok
        /\ frames[f].calls = 3
        /\ frames[f].waits = <<retry_delay, retry_delay * backoff>>
        /\ \E i \in 1..Len(failed_batches) : failed_batches[i] = failure_record(f)

\* The chunks of the last call whose id the vector store held, with their
\* chunk_hash, when the call began.
StoredUnchanged(chunks) ==
    {i \in 1..Len(chunks) :
        /\ chunks[i].chunk_id \in DOMAIN last.qdrant_before
        /\ last.qdrant_before[chunks[i].chunk_id].payload.chunk_hash = chunks[i].chunk_hash}

\* The last call wrote the id to a store.
WrittenByLast(id) ==
    \E w \in 1..Len(last.writes) :
        \E i \in 1..Len(last.writes[w].ids) : last.writes[w].ids[i] = id

\* C39: in incremental mode with skip_unchanged the skipped chunks are those
\* whose chunk_id is stored with the same chunk_hash, whatever their vendor;
\* such a chunk is written to neither store, and its stored payload keeps
\* the vendor of the first ingestion.
C39_SkipIgnoresMetadata ==
    (/\ last.outcome \notin {"none", "ValueError"} /\ ~last.dry_run
     /\ iCfg.incremental /\ iCfg.skip_unchanged) =>
        LET chunks == AllChunks(last.docs, iCfg)
        IN /\ last.outcome = "returned" =>
                 last.result.skipped = Cardinality(StoredUnchanged(chunks))
           /\ \A i \in StoredUnchanged(chunks) :
                 /\ ~WrittenByLast(chunks[i].chunk_id)
                 /\ qdrant[chunks[i].chunk_id] = last.qdrant_before[chunks[i].chunk_id]
                 /\ chunks[i].chunk_id \in DOMAIN last.bm25_before =>
                       /\ chunks[i].chunk_id \in DOMAIN bm25
                       /\ bm25[chunks[i].chunk_id] = last.bm25_before[chunks[i].chunk_id]

\* A chunk stored under vendor v1 came again under vendor v2 and was skipped:
\* the store still says v1.
C39_Witness ==
    /\ Ingested(last) /\ iCfg.incremental /\ iCfg.skip_unchanged
    /\ last.result.skipped >= 1
    /\ \E i \in StoredUnchanged(AllChunks(last.docs, iCfg)) :
          LET c == AllChunks(last.docs, iCfg)[i]
          IN /\ c.vendor = "v2"
             /\ qdrant[c.chunk_id].payload.vendor = "v1"

\* C32: when more than 10 candidates are reranked, the batched calls give
\* the ranking a single call returning the same per-text scores would give,
\* for every shape of answer the single-call path accepts.
C32_BatchedRerankEquivalence ==
    (rkpc = "done" /\ rkArgs.n > rerank_batch_size) =>
        rkOut = single_call(rkArgs.n, rkArgs.scores, rkArgs.shape, rkArgs.evidence_top_k)

\* The same, for answers that are objects with "results".
BatchedRerankOfResults ==
    (rkpc = "done" /\ rkArgs.n > rerank_batch_size /\ rkArgs.shape = "results") =>
        rkOut = single_call(rkArgs.n, rkArgs.scores, rkArgs.shape, rkArgs.evidence_top_k)

\* The keyword hit and the vector hit of an id, if any.
KeywordHitsOf(id) == {i \in 1..Len(bm25_hits) : bm25_hits[i].chunk_id = id}
VectorHitsOf(id) == {i \in 1..Len(vec_hits) : vec_hits[i].chunk_id = id}

\* The value the keyword search returned for a stored field of the hit.
StoredValue(hit, key) == hit.stored.fields[key].val[1].val

\* C33: an evidence chunk found by the keyword search only has the title,
\* source and url_or_path of the keyword index's stored fields as its search
\* returned them; one with a vector-store payload has the payload's values.
C33_AssemblyFallback ==
    evpc = "done" =>
        \A e \in 1..Len(evReturned) :
            \A key \in {"title", "source", "url_or_path"} :
                /\ \A v \in VectorHitsOf(evReturned[e].chunk_id) :
                      evReturned[e][key] = vec_hits[v].payload.fields[key].val
                /\ VectorHitsOf(evReturned[e].chunk_id) = {} =>
                      \A k \in KeywordHitsOf(evReturned[e].chunk_id) :
                          evReturned[e][key] = StoredValue(bm25_hits[k], key)

\* C35: every evidence chunk returned satisfies every filter of the call,
\* however it was found.
C35_FilterSoundness ==
    evpc = "done" =>
        \A e \in 1..Len(evReturned) :
            \A key \in DOMAIN evArgs.filters :
                evArgs.filters[key] # <<>> =>
                    CorpusChunk(evReturned[e].chunk_id)[key] = evArgs.filters[key][1]

\* The same, for the evidence that the vector search found.
FilterSoundOnVectorHits ==
    evpc = "done" =>
        \A e \in 1..Len(evReturned) :
            \A key \in DOMAIN evArgs.filters :
                (evArgs.filters[key] # <<>> /\ VectorHitsOf(evReturned[e].chunk_id) # {}) =>
                    CorpusChunk(evReturned[e].chunk_id)[key] = evArgs.filters[key][1]

\* C40: no invocation carries out an ingestion run while last_run.json holds
\* a timestamp that another of the invocations saved less than
\* interval_minutes ago.
C40_OneRunPerInterval ==
    \A i \in 1..Len(sRuns) :
        (sRuns[i].last_run # <<>> /\ sRuns[i].last_run[1].by \notin {0, sRuns[i].by}) =>
            sRuns[i].at - sRuns[i].last_run[1].ts
                >= sCfg.interval_minutes * SecondsPerMinute

=============================================================================
